---- MODULE Spec2Model ----
(***************************************************************************)
(* Multipart upload engine of buildpulse/toolkit.                          *)
(*                                                                         *)
(*   uploadZipToS3          packages/artifact/src/internal/upload/         *)
(*                          s3-upload.ts                                   *)
(*   uploadCacheArchiveSDK  packages/cache/src/internal/uploadUtils.ts     *)
(*                                                                         *)
(* One call of one of the two functions is modelled per behaviour.  The    *)
(* call runs on Node's single thread: every await is a position of pc, and *)
(* between two positions the source stream, the timers and the backend     *)
(* responses interleave freely.  A behaviour ends when the call settles    *)
(* (pc = "done"): what the stream, the timers and the requests still in    *)
(* flight do after that is not followed.                                   *)
(*                                                                         *)
(* The module also holds three components that are called around the      *)
(* engine, each with its own variables and its own specification:          *)
(*                                                                         *)
(*   uploadZipToS3Storage   SpecStorage                                    *)
(*   retry                  SpecRetry                                      *)
(*   lookupCache, restoreCacheV2                                           *)
(*                          SpecCache                                      *)
(*                                                                         *)
(* Bytes are numbered 1, 2, ... in the order the source emits them, so a   *)
(* part body is the sequence of the bytes it carries.  Sizes are counted   *)
(* in blocks of 2.5 MB (chunkSize 5 MB = 2 blocks); times are in ms.       *)
(***************************************************************************)
EXTENDS Integers, Sequences, FiniteSets, TLC

VARIABLES
  call,            \* which function this behaviour runs
  pc,              \* the await the async function is suspended at
  result,          \* "pending", "resolved", or the code of the error thrown
  stream,          \* zipUploadStream: "flowing" | "ended" | "errored"
  emitted,         \* number of bytes the source stream has emitted
  chunks,          \* the bytes buffered by the pending chunk read
  chunk,           \* the value the last chunk read resolved with
  isStreamComplete,
  uploadSize,
  partNumber,
  idle,            \* Date.now() - lastProgressTime
  readCount,       \* chunk reads started (each creates one checkStall interval)
  intervals,       \* chunk reads whose checkStall interval is still scheduled
  uploadId,        \* 0: none yet
  requests,        \* the UploadPart requests issued, in order
  uploadPromises,  \* indexes into requests
  uploadedParts,   \* << [PartNumber, ETag] >> in completion order
  completeParts,   \* the Parts list sent with CompleteMultipartUpload
  sent,            \* kinds of backend commands sent so far
  fileSize,        \* uploadCacheArchiveSDK: size of the archive
  chunkSize,
  maxConcurrency,
  i                \* uploadCacheArchiveSDK: loop index

vars == << call, pc, result, stream, emitted, chunks, chunk, isStreamComplete,
           uploadSize, partNumber, idle, readCount, intervals, uploadId,
           requests, uploadPromises, uploadedParts, completeParts, sent,
           fileSize, chunkSize, maxConcurrency, i >>

\* uploadZipToS3Storage
VARIABLES
  stPc,            \* "start" | "race" (awaiting Promise.race) | "done"
  stResult,        \* "pending", "resolved", or the code of the error thrown
  aborted,         \* abortController.signal.aborted
  checkProgress,   \* TRUE while the setInterval of timeoutPromise is scheduled
  timeoutPromise,  \* "none" | "pending" | "rejected"
  lastProgress,    \* Date.now() - lastProgressTime
  stUploadSize     \* uploadSize of uploadZipToS3Storage

storageVars == << stPc, stResult, aborted, checkProgress, timeoutPromise,
                  lastProgress, stUploadSize >>

\* retry
VARIABLES
  rtPc,            \* "start" | "fn" (awaiting fn()) | "delay" | "done"
  options,         \* the RetryOptions passed (0: maxRetries, delayMs not given)
  maxRetries,
  delayMs,
  retryableErrors,
  attempt,
  lastError,
  calls,           \* invocations of fn so far
  lastOutcome,     \* "none" | "throw" | "return": how the last invocation ended
  thrown,          \* the error thrown by the last invocation that threw
  returned,        \* the value returned by the invocation that returned
  delays,          \* the backoff delays awaited so far, in order
  rtState,         \* "pending" | "resolved" | "rejected"
  rtValue          \* what the promise of retry settled with

retryVars == << rtPc, options, maxRetries, delayMs, retryableErrors, attempt,
                lastError, calls, lastOutcome, thrown, returned, delays,
                rtState, rtValue >>

\* lookupCache, restoreCacheV2
VARIABLES
  store,           \* the bucket: S3 key -> LastModified
  primaryKey,
  restoreKeys,
  cachePaths,
  lookupOnly,      \* options.lookupOnly
  rcPc,            \* "head" | "list" | "download": the request awaited; "done"
  pathIdx,         \* index of the cachePath of the running loop
  rkIdx,           \* index of the restore key being listed
  listed,          \* prefixes listed by the running lookupCache, in order
  lastLookup,      \* what the last lookupCache that ended returned
  downloads,       \* keys asked for with GetObject, in order
  rcResult         \* what restoreCacheV2 returned

cacheVars == << store, primaryKey, restoreKeys, cachePaths, lookupOnly, rcPc,
                pathIdx, rkIdx, listed, lastLookup, downloads, rcResult >>

\* getArtifact, deleteArtifact, listArtifacts
VARIABLES
  fcOp,            \* the facade function called
  fcVariant,       \* which of the two versions of the function in the source
  failIfNotFound,  \* options.failIfNotFound (unset: FALSE)
  objectExists,    \* the bucket holds the key artifacts/<name>
  hasId,           \* the object carries the metadata 'artifact-id'
  fcPc,            \* "send": a backend request is awaited; "done"
  mgrAttempt,      \* attempt of the retry inside the S3ArtifactManager method
  facAttempt,      \* attempt of the retry inside the facade function
  sends,           \* backend requests answered so far
  lastReply,       \* the last answer of the backend
  mgrResult,       \* how the last S3ArtifactManager call that ended settled
  fcResult         \* how the facade function settled

facadeVars == << fcOp, fcVariant, failIfNotFound, objectExists, hasId, fcPc,
                 mgrAttempt, facAttempt, sends, lastReply, mgrResult,
                 fcResult >>

\* saveCache (part_009:176-240): its arguments, the environment, the position in
\* the loop over the resolved paths, and the outcome
VARIABLES
  svPaths,      \* paths, the first argument of saveCache
  svKey,        \* key: its length and whether it holds a comma
  svBucketSet,  \* whether BP_CACHE_S3_BUCKET is set
  svExisting,   \* the paths that exist on disk
  svPc,         \* "check", "resolve", "upload", "done"
  svCachePaths, \* the resolved paths of saveCacheV2
  svI,          \* index in svCachePaths of the path being uploaded
  success,      \* the local `success` of saveCacheV2
  svUploaded,   \* the paths whose uploadToS3 resolved
  svFailed,     \* the paths whose uploadToS3 rejected
  svResult      \* how the promise of saveCache settled

saveVars == << svPaths, svKey, svBucketSet, svExisting, svPc, svCachePaths, svI,
              success, svUploaded, svFailed, svResult >>

\* getRetentionDays (retention.ts:6-22) and getExpiration (part_006:6-23)
VARIABLES
  retentionDays,   \* process.env['INPUT_RETENTION-DAYS']: a string, or Undefined
  today,           \* the current date, as a day number
  rdPc,            \* "call", "returned", "done"
  rdResult,        \* what getRetentionDays returned or that it threw
  expirationDate   \* what getExpiration returned: a date, or undefined

retentionVars == << retentionDays, today, rdPc, rdResult, expirationDate >>

\* streamExtract / streamExtractExternal (download-artifact.ts:81-153) and
\* downloadFromS3 (part_011:108-159)
VARIABLES
  dlFn,            \* which function this behaviour runs
  isS3,            \* isS3Url(url): the S3-client path or the HTTP path
  objectSize,      \* the size the backend reports for the object
  dlPc,            \* "open" | "stream" | "wait" | "done" | "crashed" | "hung"
  retryCount,      \* retryCount of streamExtract
  attempts,        \* calls of streamExtractExternal so far
  downloadStream,  \* "none" | "flowing" | "ended" | "errored" | "destroyed"
  downloadedBytes, \* bytes delivered to the sink in the running attempt
  timer,           \* TRUE while the timeout of streamExtractExternal is scheduled
  sinceRefresh,    \* time since the timer was set or refreshed
  timerFired,      \* timerFn has run in the running attempt
  truncated,       \* a transfer ended short of objectSize
  dlResult         \* "pending" | "resolved" | "rejected"

downloadVars == << dlFn, isS3, objectSize, dlPc, retryCount, attempts,
                  downloadStream, downloadedBytes, timer, sinceRefresh,
                  timerFired, truncated, dlResult >>

\* UploadProgress (part_015:9-113)
VARIABLES
  contentLength,
  sentBytes,
  displayedComplete,
  timeoutHandle,   \* 0: undefined; otherwise the handle setTimeout returned
  upScheduled,     \* the handles of the timeouts that are scheduled
  upHandles,       \* handles setTimeout has returned so far
  upEvents,        \* Progress events handled so far
  upLast           \* the last Progress event handled

progressVars == << contentLength, sentBytes, displayedComplete, timeoutHandle,
                  upScheduled, upHandles, upEvents, upLast >>

\* getArtifactManager (part_003:8-11 and 17-42)
VARIABLES
  gmVariant,       \* 1: part_003:8-11, 2: part_003:17-42
  s3Config,        \* what getS3Config() does at present
  artifactManager, \* the module variable: 0 undefined, else the instance
  gmCalls,         \* calls of getArtifactManager so far
  gmLast           \* how the last call ended, and under which configuration

managerVars == << gmVariant, s3Config, artifactManager, gmCalls, gmLast >>

\* the multipart branch of the cache uploadToS3 (part_014:159-213)
VARIABLES
  mpFileSize,      \* size of the compressed file
  mpChunkSize,     \* highWaterMark of the read stream
  mpPc,            \* "create" | "read" | "part" | "complete" | "abort" | "done"
  mpPartNumber,
  mpChunks,        \* the chunks read from fileStream, in order
  mpRequests,      \* the UploadPart requests issued, in order
  mpParts,         \* the local `parts`
  mpSent,          \* the commands sent, in order
  mpError,         \* the error caught by the catch block
  mpResult         \* how the promise of uploadToS3 settled

multipartVars == << mpFileSize, mpChunkSize, mpPc, mpPartNumber, mpChunks,
                   mpRequests, mpParts, mpSent, mpError, mpResult >>

\* the time since the most recent progress event of uploadZipToS3: a data
\* event of the source stream or the completion of a part upload (or since the
\* start of the call).  The code keeps lastProgressTime (`idle`); this is the
\* time an observer of the stream and of the backend measures.
VARIABLES
  sinceProgress

clockVars == << sinceProgress >>

\* uploadFile (cacheHttpClient.ts:264-324)
VARIABLES
  ufFileSize,
  maxChunkSize,
  concurrency,
  ufOffset,        \* the local `offset`, shared by the workers
  workers,         \* worker -> "new" | "uploading" | "stopped" | "failed"
  ufRanges,        \* the << start, end >> passed to uploadChunk, in call order
  fdOpen,          \* the descriptor fd is open
  readsOnClosedFd, \* uploadChunk calls made with fd closed
  ufResult         \* "pending" | "resolved" | "rejected"

uploadFileVars == << ufFileSize, maxChunkSize, concurrency, ufOffset, workers,
                    ufRanges, fdOpen, readsOnClosedFd, ufResult >>

\* what an observer of an UploadProgress sees: the lines core.info printed and
\* the calls of stopDisplayTimer
VARIABLES
  upLines,      \* progress lines printed so far
  printedDone,  \* a line has been printed while isDone() held
  upStopped     \* stopDisplayTimer has returned

tickerVars == << upLines, printedDone, upStopped >>

\* S3ArtifactManager.uploadArtifact (artifact-manager.ts:426-481)
VARIABLES
  uaPc,        \* "create" | "upload" | "head" | "done"
  uaAttempt,   \* attempt of the retry around the function
  sessions,    \* the multipart sessions opened in the bucket, in order
  UploadId,    \* the UploadId bound in the running attempt (0: none yet)
  uaUpload,    \* the session the running Upload opened for itself (0: none)
  uaParts,     \* the parts sent: the attempt that sent and the session
  uaResult     \* how the promise of uploadArtifact settled

uploadArtifactVars == << uaPc, uaAttempt, sessions, UploadId, uaUpload, uaParts,
                        uaResult >>

----------------------------------------------------------------------------
(* Bounds of the model *)

\* bytes (blocks) the source stream may emit in one behaviour
MaxBytes == 9
\* largest data event of the source stream
MaxData == 2
\* largest archive given to uploadCacheArchiveSDK
MaxFile == 5
\* largest options.uploadChunkSize / options.uploadConcurrency tried
MaxOption == 2
\* the clock advances in steps of TickMs
TickMs == 15000
\* largest options.maxRetries tried
MaxRetriesOpt == 4
\* largest options.delayMs tried
MaxDelayOpt == 2
\* longest error message and error code
MaxLen == 2
\* the characters of messages, codes and allow-list entries
Alphabet == { "a", "b" }
\* the allow-list entries tried
RetryableEntries == { << >>, << "a" >>, << "b" >>, << "a", "b" >> }
\* most objects in the bucket
MaxObjects == 2
\* latest LastModified of an object
MaxTime == 2
\* longest restoreKeys list
MaxRestoreKeys == 2
\* the cache keys and restore keys tried
KeyNames == { << "a" >>, << "a", "b" >>, << "b" >> }
\* the cache paths tried
Paths == { << "x" >>, << "y" >> }
\* the cachePaths lists tried
CachePathLists == { << << "x" >> >>, << << "x" >>, << "y" >> >> }
\* longest value of the retention-days input
MaxInputLen == 3
\* latest current date tried
MaxToday == 1
\* largest object downloaded, in bytes
MaxObjectSize == 2
\* largest contentLength of an UploadProgress
MaxContentLength == 2
\* largest `loaded` of a Progress event
MaxLoaded == 3
\* most Progress events handled
MaxEvents == 3
\* most timeouts set
MaxHandles == 2
\* most calls of getArtifactManager
MaxManagerCalls == 3
\* largest compressed file of uploadToS3, and its largest chunk size
MaxArchive == 5
MaxArchiveChunk == 2
\* largest archive of uploadFile, its largest chunk size and most workers
MaxUploadFile == 5
MaxUploadChunk == 2
MaxWorkers == 2
\* most progress lines printed
MaxLines == 3
\* most parts one Upload sends
MaxUploadParts == 2

(* Program constants *)

\* download-artifact.ts:123, the idle timeout of a download
downloadTimeout == 30000
\* download-artifact.ts:83, the attempts of streamExtract
MaxDownloadAttempts == 5

\* retention.ts:15-16, part_006:14-15: the accepted range of days
MinRetention == 1
MaxRetention == 90

\* part_009:30, the longest key checkKey accepts
MaxKeyLength == 512

\* s3-upload.ts:19, uploadUtils.ts:103 (5 MB, in blocks of 2.5 MB)
DefaultChunkSize == 2
\* s3-upload.ts:20, uploadUtils.ts:104
DefaultMaxConcurrency == 4
\* s3-upload.ts:23
stallTimeout == 30000
\* s3-upload.ts:109: the period of checkStall
checkStallMs == 1000
\* config.ts:69: getUploadChunkTimeout() in ms
getUploadChunkTimeout == 300000
\* retry: DEFAULT_RETRY_DELAY_MS
DEFAULT_RETRY_DELAY_MS == 1000
\* retry: DEFAULT_MAX_RETRIES
DEFAULT_MAX_RETRIES == 3
\* an option that is undefined or 0: `options.x || DEFAULT` takes the default
NotGiven == 0

Min(a, b) == IF a <= b THEN a ELSE b

Range(s) == { s[k] : k \in DOMAIN s }

\* bytes lo+1 .. hi as a body
Bytes(lo, hi) == [ k \in 1..(hi - lo) |-> lo + k ]

----------------------------------------------------------------------------
(* Array.prototype.sort((a, b) => a.PartNumber - b.PartNumber): stable *)

RECURSIVE InsertPart(_, _)
InsertPart(p, s) ==
  IF s = << >> THEN << p >>
  ELSE IF s[Len(s)].PartNumber <= p.PartNumber THEN Append(s, p)
  ELSE Append(InsertPart(p, SubSeq(s, 1, Len(s) - 1)), s[Len(s)])

RECURSIVE SortByPartNumber(_)
SortByPartNumber(s) ==
  IF s = << >> THEN << >>
  ELSE InsertPart(s[Len(s)], SortByPartNumber(SubSeq(s, 1, Len(s) - 1)))

\* Promise.allSettled in place of Promise.all
AllSettled == \A k \in Range(uploadPromises) : requests[k].state # "inflight"

\* Promise.all(uploadPromises) fulfils once every promise has fulfilled
\* (s3-upload.ts:148, 168; uploadUtils.ts:160, 165) ...
AllFulfilled == \A k \in Range(uploadPromises) : requests[k].state = "fulfilled"

\* ... and rejects as soon as one has rejected
SomeRejected == \E k \in Range(uploadPromises) : requests[k].state = "rejected"

\* `>` in place of `>=`
PoolFullOffByOne(n) == n > maxConcurrency

\* s3-upload.ts:147: uploadPromises.length >= maxConcurrency
PoolFull(n) == n >= maxConcurrency

InFlight == { k \in DOMAIN requests : requests[k].state = "inflight" }

----------------------------------------------------------------------------
(* uploadZipToS3 *)

Zip == "uploadZipToS3"
Sdk == "uploadCacheArchiveSDK"

\* the catch blocks: the function settles by throwing `code`
Throw(code) ==
  /\ pc' = "done"
  /\ result' = code

\* s3-upload.ts:61-113: the loop head.  When the stream is not known to be
\* complete a new chunk read attaches its listeners and creates its own
\* checkStall interval.
ZipLoop ==
  /\ chunks' = << >>
  /\ IF isStreamComplete
     THEN /\ pc' = "remaining"
          /\ UNCHANGED << readCount, intervals >>
     ELSE /\ pc' = "read"
          /\ readCount' = readCount + 1
          /\ intervals' = intervals \cup { readCount + 1 }

\* s3-upload.ts:37-57: CreateMultipartUpload returned an UploadId
ZipCreateOk ==
  /\ call = Zip /\ pc = "create"
  /\ uploadId' = 1
  /\ ZipLoop
  /\ UNCHANGED << call, result, stream, emitted, chunk, isStreamComplete,
                  uploadSize, partNumber, idle, requests, uploadPromises,
                  uploadedParts, completeParts, sent, fileSize, chunkSize,
                  maxConcurrency, i >>

\* s3-upload.ts:44-53: the request failed, or returned no UploadId
ZipCreateFail ==
  /\ call = Zip /\ pc = "create"
  /\ Throw("CREATE_MULTIPART_FAILED")
  /\ UNCHANGED << call, stream, emitted, chunks, chunk, isStreamComplete,
                  uploadSize, partNumber, idle, readCount, intervals, uploadId,
                  requests, uploadPromises, uploadedParts, completeParts, sent,
                  fileSize, chunkSize, maxConcurrency, i >>

\* s3-upload.ts:27, 66-75: the stream is piped into hashStream from the start,
\* so it flows whether or not a chunk read is listening.  onData is attached
\* only while a chunk read is pending (pc = "read"); a data event that finds
\* no onData reaches hashStream alone.
StreamData ==
  /\ call = Zip /\ stream = "flowing" /\ pc # "done"
  /\ \E n \in 1..MaxData :
       /\ emitted + n <= MaxBytes
       /\ emitted' = emitted + n
       /\ IF pc = "read"
          THEN LET buf == chunks \o Bytes(emitted, emitted + n)
               IN /\ idle' = 0
                  /\ IF Len(buf) >= chunkSize
                     THEN /\ pc' = "gotChunk"
                          /\ chunk' = buf
                          /\ chunks' = << >>
                     ELSE /\ chunks' = buf
                          /\ UNCHANGED << pc, chunk >>
          ELSE UNCHANGED << pc, chunk, chunks, idle >>
  /\ UNCHANGED << call, result, stream, isStreamComplete, uploadSize,
                  partNumber, readCount, intervals, uploadId, requests,
                  uploadPromises, uploadedParts, completeParts, sent, fileSize,
                  chunkSize, maxConcurrency, i >>

\* s3-upload.ts:77-85, 112: 'end' is emitted once.  Every chunk read so far
\* left a once('end') listener that clears its interval; onEnd is attached
\* only while a chunk read is pending.
StreamEnd ==
  /\ call = Zip /\ stream = "flowing" /\ pc # "done"
  /\ stream' = "ended"
  /\ intervals' = {}
  /\ IF pc = "read"
     THEN /\ isStreamComplete' = TRUE
          /\ pc' = "gotChunk"
          /\ chunk' = chunks
          /\ chunks' = << >>
     ELSE UNCHANGED << isStreamComplete, pc, chunk, chunks >>
  /\ UNCHANGED << call, result, emitted, uploadSize, partNumber, idle,
                  readCount, uploadId, requests, uploadPromises, uploadedParts,
                  completeParts, sent, fileSize, chunkSize, maxConcurrency, i >>

\* s3-upload.ts:87-90, 215-218: 'error' while a chunk read is pending; the
\* rejection is neither a stall nor an S3UploadError
StreamError ==
  /\ call = Zip /\ stream = "flowing" /\ pc = "read"
  /\ stream' = "errored"
  /\ chunks' = << >>
  /\ Throw("UNEXPECTED_ERROR")
  /\ UNCHANGED << call, emitted, chunk, isStreamComplete, uploadSize,
                  partNumber, idle, readCount, intervals, uploadId, requests,
                  uploadPromises, uploadedParts, completeParts, sent, fileSize,
                  chunkSize, maxConcurrency, i >>

\* s3-upload.ts:115-157: the continuation of a resolved chunk read.  It runs as
\* a microtask after the event that resolved the read; what the stream emits
\* before it (further buffered chunks of the same flow loop, 'end' on
\* nextTick) finds the read's listeners already removed.
ZipSendPart ==
  /\ call = Zip /\ pc = "gotChunk"
  /\ IF Len(chunk) = 0 /\ isStreamComplete
     THEN /\ pc' = "remaining"
          /\ UNCHANGED << uploadSize, requests, uploadPromises, sent,
                          partNumber, chunks, readCount, intervals >>
     ELSE /\ uploadSize' = uploadSize + Len(chunk)
          /\ requests' = Append(requests, [ PartNumber |-> partNumber,
                                            Body |-> chunk,
                                            state |-> "inflight" ])
          /\ uploadPromises' = Append(uploadPromises, Len(requests) + 1)
          /\ sent' = sent \cup { "UploadPart" }
          /\ IF PoolFull(Len(uploadPromises) + 1)
             THEN /\ pc' = "batch"
                  /\ UNCHANGED << partNumber, chunks, readCount, intervals >>
             ELSE /\ partNumber' = partNumber + 1
                  /\ ZipLoop
  /\ UNCHANGED << call, result, stream, emitted, chunk, isStreamComplete, idle,
                  uploadId, uploadedParts, completeParts, fileSize, chunkSize,
                  maxConcurrency, i >>

\* s3-upload.ts:147-157: Promise.all of a full batch fulfilled
ZipBatchResolve ==
  /\ call = Zip /\ pc = "batch"
  /\ AllFulfilled
  /\ uploadPromises' = << >>
  /\ partNumber' = partNumber + 1
  /\ ZipLoop
  /\ UNCHANGED << call, result, stream, emitted, chunk, isStreamComplete,
                  uploadSize, idle, uploadId, requests, uploadedParts,
                  completeParts, sent, fileSize, chunkSize, maxConcurrency, i >>

\* s3-upload.ts:148-153, 158-163: Promise.all of a full batch rejected
ZipBatchReject ==
  /\ call = Zip /\ pc = "batch"
  /\ SomeRejected
  /\ Throw("UPLOAD_PART_FAILED")
  /\ UNCHANGED << call, stream, emitted, chunks, chunk, isStreamComplete,
                  uploadSize, partNumber, idle, readCount, intervals, uploadId,
                  requests, uploadPromises, uploadedParts, completeParts, sent,
                  fileSize, chunkSize, maxConcurrency, i >>

\* s3-upload.ts:166-187: the remaining uploads fulfilled; the commit is sent
ZipRemainingResolve ==
  /\ call = Zip /\ pc = "remaining"
  /\ AllFulfilled
  /\ pc' = "complete"
  /\ completeParts' = SortByPartNumber(uploadedParts)
  /\ uploadedParts' = SortByPartNumber(uploadedParts)
  /\ sent' = sent \cup { "CompleteMultipartUpload" }
  /\ UNCHANGED << call, result, stream, emitted, chunks, chunk,
                  isStreamComplete, uploadSize, partNumber, idle, readCount,
                  intervals, uploadId, requests, uploadPromises, fileSize,
                  chunkSize, maxConcurrency, i >>

\* s3-upload.ts:167-174
ZipRemainingReject ==
  /\ call = Zip /\ pc = "remaining"
  /\ SomeRejected
  /\ Throw("UPLOAD_PARTS_FAILED")
  /\ UNCHANGED << call, stream, emitted, chunks, chunk, isStreamComplete,
                  uploadSize, partNumber, idle, readCount, intervals, uploadId,
                  requests, uploadPromises, uploadedParts, completeParts, sent,
                  fileSize, chunkSize, maxConcurrency, i >>

\* s3-upload.ts:195-207: the commit succeeded
ZipCompleteOk ==
  /\ call = Zip /\ pc = "complete"
  /\ pc' = "done"
  /\ result' = IF uploadSize = 0 THEN "ZERO_BYTES_UPLOADED" ELSE "resolved"
  /\ UNCHANGED << call, stream, emitted, chunks, chunk, isStreamComplete,
                  uploadSize, partNumber, idle, readCount, intervals, uploadId,
                  requests, uploadPromises, uploadedParts, completeParts, sent,
                  fileSize, chunkSize, maxConcurrency, i >>

\* s3-upload.ts:188-193
ZipCompleteFail ==
  /\ call = Zip /\ pc = "complete"
  /\ Throw("COMPLETE_MULTIPART_FAILED")
  /\ UNCHANGED << call, stream, emitted, chunks, chunk, isStreamComplete,
                  uploadSize, partNumber, idle, readCount, intervals, uploadId,
                  requests, uploadPromises, uploadedParts, completeParts, sent,
                  fileSize, chunkSize, maxConcurrency, i >>

\* s3-upload.ts:132-144: the callback closes over the function's one
\* `let partNumber`, so it records the value partNumber has when it runs
ZipRecordedPartNumber(k) == partNumber

\* s3-upload.ts:132-144: UploadPart request k returned an ETag.  The ETag of
\* request k is written k.
ZipPartOk ==
  /\ call = Zip /\ pc # "done"
  /\ \E k \in InFlight :
       /\ requests' = [ requests EXCEPT ![k].state = "fulfilled" ]
       /\ uploadedParts' = Append(uploadedParts,
                                  [ PartNumber |-> ZipRecordedPartNumber(k),
                                    ETag |-> k ])
  /\ idle' = 0
  /\ UNCHANGED << call, pc, result, stream, emitted, chunks, chunk,
                  isStreamComplete, uploadSize, partNumber, readCount,
                  intervals, uploadId, uploadPromises, completeParts, sent,
                  fileSize, chunkSize, maxConcurrency, i >>

\* s3-upload.ts:132-138: the request failed, or returned no ETag
ZipPartFail ==
  /\ call = Zip /\ pc # "done"
  /\ \E k \in InFlight :
       requests' = [ requests EXCEPT ![k].state = "rejected" ]
  /\ UNCHANGED << call, pc, result, stream, emitted, chunks, chunk,
                  isStreamComplete, uploadSize, partNumber, idle, readCount,
                  intervals, uploadId, uploadPromises, uploadedParts,
                  completeParts, sent, fileSize, chunkSize, maxConcurrency, i >>

\* s3-upload.ts:103-109: time passes and every scheduled checkStall runs.  One
\* that finds the transfer stalled clears itself and rejects its chunk read,
\* which has an effect only if that read is still pending.
Tick ==
  /\ call = Zip /\ pc # "done"
  /\ idle <= stallTimeout + TickMs
  /\ idle' = idle + TickMs
  /\ LET fired == IF idle' > stallTimeout THEN intervals ELSE {}
     IN /\ intervals' = intervals \ fired
        /\ IF pc = "read" /\ readCount \in fired
           THEN /\ Throw("STALL")
                /\ chunks' = << >>
           ELSE UNCHANGED << pc, result, chunks >>
  /\ UNCHANGED << call, stream, emitted, chunk, isStreamComplete, uploadSize,
                  partNumber, readCount, uploadId, requests, uploadPromises,
                  uploadedParts, completeParts, sent, fileSize, chunkSize,
                  maxConcurrency, i >>

NextZip ==
  \/ ZipCreateOk \/ ZipCreateFail
  \/ StreamData \/ StreamEnd \/ StreamError
  \/ ZipSendPart \/ ZipBatchResolve \/ ZipBatchReject
  \/ ZipRemainingResolve \/ ZipRemainingReject
  \/ ZipCompleteOk \/ ZipCompleteFail
  \/ ZipPartOk \/ ZipPartFail
  \/ Tick

InitZip ==
  /\ call = Zip
  /\ pc = "create"
  /\ result = "pending"
  /\ stream = "flowing"
  /\ emitted = 0
  /\ chunks = << >>
  /\ chunk = << >>
  /\ isStreamComplete = FALSE
  /\ uploadSize = 0
  /\ partNumber = 1
  /\ idle = 0
  /\ readCount = 0
  /\ intervals = {}
  /\ uploadId = 0
  /\ requests = << >>
  /\ uploadPromises = << >>
  /\ uploadedParts = << >>
  /\ completeParts = << >>
  /\ sent = { "CreateMultipartUpload" }
  /\ fileSize = 0
  /\ chunkSize = DefaultChunkSize
  /\ maxConcurrency = DefaultMaxConcurrency
  /\ i = 0

SpecZip == InitZip /\ [][NextZip]_vars

----------------------------------------------------------------------------
(* uploadCacheArchiveSDK *)

\* uploadUtils.ts:125
numParts == (fileSize + chunkSize - 1) \div chunkSize

\* uploadUtils.ts:130-142: the UploadPart request of loop index j
SdkRequest(j) ==
  [ PartNumber |-> j + 1,
    Body |-> Bytes(j * chunkSize, Min(j * chunkSize + chunkSize, fileSize)),
    state |-> "inflight" ]

\* uploadUtils.ts:129-165: the for loop from index `from` with uploadPromises
\* empty, up to its next await.  No iteration suspends before uploadPromises
\* holds maxConcurrency requests, so the requests go out in one step
\* (maxConcurrency >= 1).
SdkLoop(from) ==
  LET count == Min(maxConcurrency, numParts - from)
  IN /\ requests' = requests \o [ k \in 1..count |-> SdkRequest(from + k - 1) ]
     /\ uploadPromises' = [ k \in 1..count |-> Len(requests) + k ]
     /\ i' = from + count
     /\ sent' = IF count > 0 THEN sent \cup { "UploadPart" } ELSE sent
     /\ pc' = IF count >= maxConcurrency THEN "batch" ELSE "remaining"

\* uploadUtils.ts:113-163: CreateMultipartUpload returned an UploadId
SdkCreateOk ==
  /\ call = Sdk /\ pc = "create"
  /\ uploadId' = 1
  /\ SdkLoop(0)
  /\ UNCHANGED << call, result, stream, emitted, chunks, chunk,
                  isStreamComplete, uploadSize, partNumber, idle, readCount,
                  intervals, uploadedParts, completeParts, fileSize, chunkSize,
                  maxConcurrency >>

\* uploadUtils.ts:113-123, 179-183: the request failed, or returned no UploadId
SdkCreateFail ==
  /\ call = Sdk /\ pc = "create"
  /\ Throw("CREATE_FAILED")
  /\ UNCHANGED << call, stream, emitted, chunks, chunk, isStreamComplete,
                  uploadSize, partNumber, idle, readCount, intervals, uploadId,
                  requests, uploadPromises, uploadedParts, completeParts, sent,
                  fileSize, chunkSize, maxConcurrency, i >>

\* uploadUtils.ts:159-162: Promise.all of a full batch fulfilled
SdkBatchResolve ==
  /\ call = Sdk /\ pc = "batch"
  /\ AllFulfilled
  /\ SdkLoop(i)
  /\ UNCHANGED << call, result, stream, emitted, chunks, chunk,
                  isStreamComplete, uploadSize, partNumber, idle, readCount,
                  intervals, uploadId, uploadedParts, completeParts, fileSize,
                  chunkSize, maxConcurrency >>

\* uploadUtils.ts:160, 179-183: Promise.all of a full batch rejected
SdkBatchReject ==
  /\ call = Sdk /\ pc = "batch"
  /\ SomeRejected
  /\ Throw("PART_FAILED")
  /\ UNCHANGED << call, stream, emitted, chunks, chunk, isStreamComplete,
                  uploadSize, partNumber, idle, readCount, intervals, uploadId,
                  requests, uploadPromises, uploadedParts, completeParts, sent,
                  fileSize, chunkSize, maxConcurrency, i >>

\* uploadUtils.ts:165-176: the remaining uploads fulfilled; the commit is sent
SdkRemainingResolve ==
  /\ call = Sdk /\ pc = "remaining"
  /\ AllFulfilled
  /\ pc' = "complete"
  /\ completeParts' = SortByPartNumber(uploadedParts)
  /\ uploadedParts' = SortByPartNumber(uploadedParts)
  /\ sent' = sent \cup { "CompleteMultipartUpload" }
  /\ UNCHANGED << call, result, stream, emitted, chunks, chunk,
                  isStreamComplete, uploadSize, partNumber, idle, readCount,
                  intervals, uploadId, requests, uploadPromises, fileSize,
                  chunkSize, maxConcurrency, i >>

\* uploadUtils.ts:165, 179-183
SdkRemainingReject ==
  /\ call = Sdk /\ pc = "remaining"
  /\ SomeRejected
  /\ Throw("PART_FAILED")
  /\ UNCHANGED << call, stream, emitted, chunks, chunk, isStreamComplete,
                  uploadSize, partNumber, idle, readCount, intervals, uploadId,
                  requests, uploadPromises, uploadedParts, completeParts, sent,
                  fileSize, chunkSize, maxConcurrency, i >>

\* uploadUtils.ts:167-178
SdkCompleteOk ==
  /\ call = Sdk /\ pc = "complete"
  /\ pc' = "done"
  /\ result' = "resolved"
  /\ UNCHANGED << call, stream, emitted, chunks, chunk, isStreamComplete,
                  uploadSize, partNumber, idle, readCount, intervals, uploadId,
                  requests, uploadPromises, uploadedParts, completeParts, sent,
                  fileSize, chunkSize, maxConcurrency, i >>

\* uploadUtils.ts:167-183
SdkCompleteFail ==
  /\ call = Sdk /\ pc = "complete"
  /\ Throw("COMPLETE_FAILED")
  /\ UNCHANGED << call, stream, emitted, chunks, chunk, isStreamComplete,
                  uploadSize, partNumber, idle, readCount, intervals, uploadId,
                  requests, uploadPromises, uploadedParts, completeParts, sent,
                  fileSize, chunkSize, maxConcurrency, i >>

\* uploadUtils.ts:132, 145-152: the callback closes over the iteration's own
\* `const partNumber`
SdkRecordedPartNumber(k) == requests[k].PartNumber

\* uploadUtils.ts:145-156: UploadPart request k returned an ETag
SdkPartOk ==
  /\ call = Sdk /\ pc # "done"
  /\ \E k \in InFlight :
       /\ requests' = [ requests EXCEPT ![k].state = "fulfilled" ]
       /\ uploadedParts' = Append(uploadedParts,
                                  [ PartNumber |-> SdkRecordedPartNumber(k),
                                    ETag |-> k ])
  /\ UNCHANGED << call, pc, result, stream, emitted, chunks, chunk,
                  isStreamComplete, uploadSize, partNumber, idle, readCount,
                  intervals, uploadId, uploadPromises, completeParts, sent,
                  fileSize, chunkSize, maxConcurrency, i >>

\* uploadUtils.ts:145-148: the request failed, or returned no ETag
SdkPartFail ==
  /\ call = Sdk /\ pc # "done"
  /\ \E k \in InFlight :
       requests' = [ requests EXCEPT ![k].state = "rejected" ]
  /\ UNCHANGED << call, pc, result, stream, emitted, chunks, chunk,
                  isStreamComplete, uploadSize, partNumber, idle, readCount,
                  intervals, uploadId, uploadPromises, uploadedParts,
                  completeParts, sent, fileSize, chunkSize, maxConcurrency, i >>

NextSdk ==
  \/ SdkCreateOk \/ SdkCreateFail
  \/ SdkBatchResolve \/ SdkBatchReject
  \/ SdkRemainingResolve \/ SdkRemainingReject
  \/ SdkCompleteOk \/ SdkCompleteFail
  \/ SdkPartOk \/ SdkPartFail

\* uploadUtils.ts:94-104: the archive and the options of the call
InitSdk ==
  /\ call = Sdk
  /\ pc = "create"
  /\ result = "pending"
  /\ stream = "flowing"
  /\ emitted = 0
  /\ chunks = << >>
  /\ chunk = << >>
  /\ isStreamComplete = FALSE
  /\ uploadSize = 0
  /\ partNumber = 1
  /\ idle = 0
  /\ readCount = 0
  /\ intervals = {}
  /\ uploadId = 0
  /\ requests = << >>
  /\ uploadPromises = << >>
  /\ uploadedParts = << >>
  /\ completeParts = << >>
  /\ sent = { "CreateMultipartUpload" }
  /\ fileSize \in 0..MaxFile
  /\ chunkSize \in (1..MaxOption) \cup { DefaultChunkSize }
  /\ maxConcurrency \in (1..MaxOption) \cup { DefaultMaxConcurrency }
  /\ i = 0

----------------------------------------------------------------------------
(* uploadZipToS3Storage (lib-storage Upload raced against a stall timer) *)

\* the engine's variables while another component runs
EngineOff ==
  /\ call = "none"
  /\ pc = "done"
  /\ result = "pending"
  /\ stream = "flowing"
  /\ emitted = 0
  /\ chunks = << >>
  /\ chunk = << >>
  /\ isStreamComplete = FALSE
  /\ uploadSize = 0
  /\ partNumber = 1
  /\ idle = 0
  /\ readCount = 0
  /\ intervals = {}
  /\ uploadId = 0
  /\ requests = << >>
  /\ uploadPromises = << >>
  /\ uploadedParts = << >>
  /\ completeParts = << >>
  /\ sent = {}
  /\ fileSize = 0
  /\ chunkSize = DefaultChunkSize
  /\ maxConcurrency = DefaultMaxConcurrency
  /\ i = 0

\* the variables of uploadZipToS3Storage while another component runs
StorageOff ==
  /\ stPc = "done"
  /\ stResult = "pending"
  /\ aborted = FALSE
  /\ checkProgress = FALSE
  /\ timeoutPromise = "none"
  /\ lastProgress = 0
  /\ stUploadSize = 0

\* abortController.abort(): sets the signal and runs the 'abort' listener,
\* which clears the interval.  A second abort() changes nothing.
Abort ==
  /\ aborted' = TRUE
  /\ checkProgress' = FALSE

\* a stall callback that rejects without aborting the upload
StallFiresNoAbort ==
  /\ checkProgress' = FALSE
  /\ aborted' = aborted
  /\ timeoutPromise' = "rejected"

\* the interval callback found the transfer stalled: clearInterval, abort(),
\* reject(new Error('Upload progress stalled.'))
StallFires ==
  /\ Abort
  /\ timeoutPromise' = "rejected"

\* getS3Client() or parseS3Url() throws: nothing has been created yet
StSetupFail ==
  /\ stPc = "start"
  /\ stPc' = "done"
  /\ stResult' = "SETUP_ERROR"
  /\ UNCHANGED << aborted, checkProgress, timeoutPromise, lastProgress,
                  stUploadSize >>

\* up to the await of Promise.race: lastProgressTime = Date.now(), the
\* interval is scheduled and the upload is started
StStart ==
  /\ stPc = "start"
  /\ stPc' = "race"
  /\ lastProgress' = 0
  /\ checkProgress' = TRUE
  /\ timeoutPromise' = "pending"
  /\ UNCHANGED << stResult, aborted, stUploadSize >>

\* 'httpUploadProgress': progressCallback(progress.loaded || 0)
StProgress ==
  /\ stPc = "race" /\ timeoutPromise = "pending"
  /\ \E loaded \in 0..MaxBytes : stUploadSize' = loaded
  /\ lastProgress' = 0
  /\ UNCHANGED << stPc, stResult, aborted, checkProgress, timeoutPromise >>

\* time passes and the interval callback, if still scheduled, runs
StTick ==
  /\ stPc = "race" /\ timeoutPromise = "pending"
  /\ lastProgress <= getUploadChunkTimeout
  /\ lastProgress' = lastProgress + TickMs
  /\ IF checkProgress /\ lastProgress' > getUploadChunkTimeout
     THEN StallFires
     ELSE UNCHANGED << aborted, checkProgress, timeoutPromise >>
  /\ UNCHANGED << stPc, stResult, stUploadSize >>

\* upload.done() fulfils first: return {uploadSize, sha256Hash}; finally
StUploadDone ==
  /\ stPc = "race" /\ timeoutPromise = "pending"
  /\ Abort
  /\ stPc' = "done"
  /\ stResult' = "resolved"
  /\ UNCHANGED << timeoutPromise, lastProgress, stUploadSize >>

\* upload.done() rejects first: catch, abort(), throw error; finally
StUploadFail ==
  /\ stPc = "race" /\ timeoutPromise = "pending"
  /\ Abort
  /\ stPc' = "done"
  /\ stResult' = "UPLOAD_ERROR"
  /\ UNCHANGED << timeoutPromise, lastProgress, stUploadSize >>

\* timeoutPromise rejected first: in the microtasks that follow the callback
\* the race throws 'Upload progress stalled.' into the catch block: abort(),
\* throw error; finally
StStallRaised ==
  /\ stPc = "race" /\ timeoutPromise = "rejected"
  /\ Abort
  /\ stPc' = "done"
  /\ stResult' = "STALL"
  /\ UNCHANGED << timeoutPromise, lastProgress, stUploadSize >>

InitStorageCall ==
  /\ stPc = "start"
  /\ stResult = "pending"
  /\ aborted = FALSE
  /\ checkProgress = FALSE
  /\ timeoutPromise = "none"
  /\ lastProgress = 0
  /\ stUploadSize = 0

----------------------------------------------------------------------------
(* retry (util/retry): classification-based retry with exponential backoff *)

\* all strings of length at most n over Alphabet
Strings(n) == UNION { [ 1..m -> Alphabet ] : m \in 0..n }

\* a property that is undefined (an error without message, without code)
Undefined == << "undefined" >>

\* String.prototype.includes
Includes(s, sub) ==
  \E k \in 0..(Len(s) - Len(sub)) : SubSeq(s, k + 1, k + Len(sub)) = sub

\* Math.pow(2, n) for n >= 0
RECURSIVE Pow2(_)
Pow2(n) == IF n <= 0 THEN 1 ELSE 2 * Pow2(n - 1)

\* a classification that retries whatever the allow-list says
IsRetryableAlways(error, list) == TRUE

\* retryableErrors.length === 0 ||
\*   retryableErrors.some(msg => lastError?.message?.includes(msg) ||
\*                               lastError?.code === msg)
IsRetryable(error, list) ==
  \/ Len(list) = 0
  \/ \E k \in DOMAIN list :
       \/ error.message # Undefined /\ Includes(error.message, list[k])
       \/ error.code = list[k]

\* a backoff that doubles once too often
BackoffOneTooMany(base, n) == base * Pow2(n)

\* delayMs * Math.pow(2, attempt - 1)
Backoff(base, n) == base * Pow2(n - 1)

\* a rejection that wraps the error thrown by fn
ThrownWrapped(error) == [ kind |-> "error", id |-> 0,
                          message |-> error.message, code |-> Undefined ]

\* `throw error`: the value caught is rethrown as it is
Thrown(error) == error

\* a loop that gives up one attempt early
LastAttemptEarly(n, max) == n + 1 >= max

\* attempt === maxRetries
LastAttempt(n, max) == n = max

\* a success whose value is not passed on
ResolvedDropped(value) == [ kind |-> "undefined" ]

\* `return await fn()`
Resolved(value) == value

\* the errors fn may throw at its n-th invocation
Errors(n) == [ kind : { "error" }, id : { n },
               message : Strings(MaxLen) \cup { Undefined },
               code : (Strings(MaxLen) \ { << >> }) \cup { Undefined } ]

\* the values fn may return
Values == [ kind : { "value" }, v : { "v1", "v2" } ]

\* the allow-lists tried: up to two of RetryableEntries
RetryableLists ==
  { << >> } \cup { << x >> : x \in RetryableEntries }
            \cup { << x, y >> : x \in RetryableEntries, y \in RetryableEntries }

\* the variables of retry while another component runs
RetryOff ==
  /\ rtPc = "done"
  /\ options = [ maxRetries |-> 0, delayMs |-> 0, retryableErrors |-> << >> ]
  /\ maxRetries = 0
  /\ delayMs = 0
  /\ retryableErrors = << >>
  /\ attempt = 0
  /\ lastError = [ kind |-> "undefined" ]
  /\ calls = 0
  /\ lastOutcome = "none"
  /\ thrown = [ kind |-> "undefined" ]
  /\ returned = [ kind |-> "undefined" ]
  /\ delays = << >>
  /\ rtState = "pending"
  /\ rtValue = [ kind |-> "undefined" ]

\* for (let attempt = ...; attempt <= maxRetries; ...): either fn is invoked
\* for attempt n, or the loop is left and `throw lastError` runs
RtLoop(n) ==
  /\ attempt' = n
  /\ IF n <= maxRetries'
     THEN /\ rtPc' = "fn"
          /\ UNCHANGED << rtState, rtValue >>
     ELSE /\ rtPc' = "done"
          /\ rtState' = "rejected"
          /\ rtValue' = lastError

\* the options are resolved and the loop is entered
RtStart ==
  /\ rtPc = "start"
  /\ maxRetries' = IF options.maxRetries = NotGiven
                   THEN DEFAULT_MAX_RETRIES ELSE options.maxRetries
  /\ delayMs' = IF options.delayMs = NotGiven
                THEN DEFAULT_RETRY_DELAY_MS ELSE options.delayMs
  /\ retryableErrors' = options.retryableErrors
  /\ RtLoop(1)
  /\ UNCHANGED << options, lastError, calls, lastOutcome, thrown, returned,
                  delays >>

\* fn() fulfils: return await fn()
RtFnReturns ==
  /\ rtPc = "fn"
  /\ \E value \in Values :
       /\ returned' = value
       /\ rtValue' = Resolved(value)
  /\ calls' = calls + 1
  /\ lastOutcome' = "return"
  /\ rtState' = "resolved"
  /\ rtPc' = "done"
  /\ UNCHANGED << options, maxRetries, delayMs, retryableErrors, attempt,
                  lastError, thrown, delays >>

\* fn() rejects: the catch block, up to the await of the backoff timer
RtFnThrows ==
  /\ rtPc = "fn"
  /\ calls' = calls + 1
  /\ lastOutcome' = "throw"
  /\ \E error \in Errors(calls + 1) :
       /\ thrown' = error
       /\ lastError' = error
       /\ IF \/ ~IsRetryable(error, retryableErrors)
             \/ LastAttempt(attempt, maxRetries)
          THEN /\ rtState' = "rejected"
               /\ rtValue' = Thrown(error)
               /\ rtPc' = "done"
               /\ UNCHANGED delays
          ELSE /\ delays' = Append(delays, Backoff(delayMs, attempt))
               /\ rtPc' = "delay"
               /\ UNCHANGED << rtState, rtValue >>
  /\ UNCHANGED << options, maxRetries, delayMs, retryableErrors, attempt,
                  returned >>

\* the backoff timer fires: attempt++ and the loop condition
RtTimer ==
  /\ rtPc = "delay"
  /\ UNCHANGED maxRetries
  /\ RtLoop(attempt + 1)
  /\ UNCHANGED << options, delayMs, retryableErrors, lastError, calls,
                  lastOutcome, thrown, returned, delays >>

InitRetryCall ==
  /\ rtPc = "start"
  /\ options \in [ maxRetries : 0..MaxRetriesOpt,
                   delayMs : 0..MaxDelayOpt,
                   retryableErrors : RetryableLists ]
  /\ maxRetries = 0
  /\ delayMs = 0
  /\ retryableErrors = << >>
  /\ attempt = 0
  /\ lastError = [ kind |-> "undefined" ]
  /\ calls = 0
  /\ lastOutcome = "none"
  /\ thrown = [ kind |-> "undefined" ]
  /\ returned = [ kind |-> "undefined" ]
  /\ delays = << >>
  /\ rtState = "pending"
  /\ rtValue = [ kind |-> "undefined" ]

----------------------------------------------------------------------------
(* lookupCache (s3Client) called by restoreCacheV2 (cache) *)

\* `${key}:${path}`: the S3 key uploadToS3 stores and downloadFromS3 fetches
S3Key(key, path) == key \o << ":" >> \o path

\* the keys objects of the bucket may have: all written by uploadToS3
StoredKeys == { S3Key(k, p) : k \in KeyNames, p \in Paths }

\* the bucket contents tried: at most MaxObjects objects with their LastModified
Stores ==
  UNION { [ K -> 1..MaxTime ] :
          K \in { S \in SUBSET StoredKeys : Cardinality(S) <= MaxObjects } }

\* the restoreKeys lists tried
RestoreKeyLists == UNION { [ 1..n -> KeyNames ] : n \in 0..MaxRestoreKeys }

\* UTF-8 code of a character
CharCode(c) ==
  CASE c = ":" -> 58 [] c = "a" -> 97 [] c = "b" -> 98
    [] c = "x" -> 120 [] c = "y" -> 121

\* binary order of two keys
RECURSIVE LexLess(_, _)
LexLess(s, t) ==
  IF s = << >> THEN t # << >>
  ELSE IF t = << >> THEN FALSE
  ELSE IF s[1] # t[1] THEN CharCode(s[1]) < CharCode(t[1])
  ELSE LexLess(Tail(s), Tail(t))

\* the keys of a set in binary order
RECURSIVE SortKeys(_)
SortKeys(S) ==
  IF S = {} THEN << >>
  ELSE LET first == CHOOSE m \in S : \A o \in S \ { m } : LexLess(m, o)
       IN << first >> \o SortKeys(S \ { first })

StartsWith(s, prefix) ==
  /\ Len(prefix) <= Len(s)
  /\ SubSeq(s, 1, Len(prefix)) = prefix

\* String.prototype.split(':')
RECURSIVE Split(_)
Split(s) ==
  IF \E k \in DOMAIN s : s[k] = ":"
  THEN LET k == CHOOSE k \in DOMAIN s :
                  s[k] = ":" /\ \A j \in 1..(k - 1) : s[j] # ":"
       IN << SubSeq(s, 1, k - 1) >> \o Split(SubSeq(s, k + 1, Len(s)))
  ELSE << s >>

\* response.Contents of ListObjectsV2 {Prefix}: the keys that start with the
\* prefix, in binary order
Contents(prefix) ==
  SortKeys({ k \in DOMAIN store : StartsWith(k, prefix) })

\* the loop of listCacheEntries over response.Contents
RECURSIVE ToEntries(_)
ToEntries(keys) ==
  IF keys = << >> THEN << >>
  ELSE LET parts == Split(Head(keys))
       IN (IF Len(parts) >= 2
           THEN << [ key |-> parts[1], version |-> parts[2],
                     creationTime |-> store[Head(keys)] ] >>
           ELSE << >>) \o ToEntries(Tail(keys))

\* a comparator that puts the oldest entry first
PrecedesOldestFirst(a, b) == a.creationTime - b.creationTime < 0

\* (a, b) => new Date(b.creationTime).getTime() -
\*           new Date(a.creationTime).getTime()  is negative: a sorts before b
Precedes(a, b) == b.creationTime - a.creationTime < 0

\* Array.prototype.sort with that comparator: stable
RECURSIVE InsertEntry(_, _)
InsertEntry(e, s) ==
  IF s = << >> THEN << e >>
  ELSE IF ~Precedes(e, s[Len(s)]) THEN Append(s, e)
  ELSE Append(InsertEntry(e, SubSeq(s, 1, Len(s) - 1)), s[Len(s)])

RECURSIVE SortEntries(_)
SortEntries(s) ==
  IF s = << >> THEN << >>
  ELSE InsertEntry(s[Len(s)], SortEntries(SubSeq(s, 1, Len(s) - 1)))

\* utils.getCacheVersion(paths, ...): a hash of the paths
RECURSIVE getCacheVersion(_)
getCacheVersion(paths) ==
  IF paths = << >> THEN << "#" >>
  ELSE getCacheVersion(SubSeq(paths, 1, Len(paths) - 1)) \o paths[Len(paths)]

\* a HeadObject request for the name before the ':' only
HeadObjectKeyName(key) == Split(key)[1]

\* HeadObjectCommand {Key: key}
HeadObjectKey(key) == key

NoEntry == [ key |-> << >>, version |-> << >>, creationTime |-> 0 ]

\* the s3Key restoreCacheV2 looks up for its n-th cachePath
LookupKey(n) == S3Key(primaryKey, cachePaths[n])

\* the variables of restoreCacheV2 while another component runs
CacheOff ==
  /\ store = << >>
  /\ primaryKey = << >>
  /\ restoreKeys = << >>
  /\ cachePaths = << >>
  /\ lookupOnly = FALSE
  /\ rcPc = "done"
  /\ pathIdx = 0
  /\ rkIdx = 0
  /\ listed = << >>
  /\ lastLookup = [ key |-> << >>, state |-> "none", via |-> 0,
                    entry |-> NoEntry, listed |-> << >> ]
  /\ downloads = << >>
  /\ rcResult = [ kind |-> "pending", key |-> << >> ]

cacheInputs == << store, primaryKey, restoreKeys, cachePaths, lookupOnly >>

\* restoreCacheV2 returns
RcReturn(kind, key) ==
  /\ rcPc' = "done"
  /\ rcResult' = [ kind |-> kind, key |-> key ]
  /\ UNCHANGED << pathIdx, rkIdx, listed, downloads >>

\* restoreCacheV2 calls lookupCache for its n-th cachePath; lookupCache calls
\* getCacheEntry, which sends HeadObject
RcLookup(n) ==
  /\ rcPc' = "head"
  /\ pathIdx' = n
  /\ rkIdx' = 0
  /\ listed' = << >>
  /\ UNCHANGED << downloads, rcResult >>

\* restoreCacheV2 calls downloadFromS3(bucket, primaryKey, cachePath) for its
\* n-th cachePath, which sends GetObject
RcDownload(n) ==
  /\ rcPc' = "download"
  /\ pathIdx' = n
  /\ downloads' = Append(downloads, S3Key(primaryKey, cachePaths[n]))
  /\ UNCHANGED << rkIdx, listed, rcResult >>

\* restoreCacheV2 after lookupCache has returned for cachePaths[pathIdx]
RcAfterLookup(exists) ==
  IF ~exists THEN RcReturn("undefined", << >>)
  ELSE IF pathIdx < Len(cachePaths) THEN RcLookup(pathIdx + 1)
  ELSE IF lookupOnly THEN RcReturn("key", primaryKey)
  ELSE RcDownload(1)

\* lookupCache returns: what it returned and the list requests it made
LcReturn(state, via, entry) ==
  lastLookup' = [ key |-> LookupKey(pathIdx), state |-> state, via |-> via,
                  entry |-> entry, listed |-> listed ]

\* for (const restoreKey of restoreKeys): the n-th restore key is listed, or
\* the loop is over and lookupCache returns undefined
LcRestoreLoop(n) ==
  IF n <= Len(restoreKeys)
  THEN /\ rcPc' = "list"
       /\ rkIdx' = n
       /\ listed' = Append(listed, restoreKeys[n])
       /\ UNCHANGED << pathIdx, lastLookup, downloads, rcResult >>
  ELSE /\ LcReturn("undefined", 0, NoEntry)
       /\ RcAfterLookup(FALSE)

\* getCacheEntry: HeadObject answers for an object that exists
LcHeadFound ==
  /\ rcPc = "head"
  /\ HeadObjectKey(LookupKey(pathIdx)) \in DOMAIN store
  /\ LcReturn("hit", 0,
              [ key |-> LookupKey(pathIdx),
                version |-> getCacheVersion(cachePaths),
                creationTime |-> store[HeadObjectKey(LookupKey(pathIdx))] ])
  /\ RcAfterLookup(TRUE)
  /\ UNCHANGED cacheInputs

\* getCacheEntry: HeadObject answers NotFound
LcHeadNotFound ==
  /\ rcPc = "head"
  /\ HeadObjectKey(LookupKey(pathIdx)) \notin DOMAIN store
  /\ LcRestoreLoop(1)
  /\ UNCHANGED cacheInputs

\* getCacheEntry: HeadObject fails with another error, which lookupCache
\* throws and restoreCacheV2 catches
LcHeadError ==
  /\ rcPc = "head"
  /\ LcReturn("error", 0, NoEntry)
  /\ RcReturn("undefined", << >>)
  /\ UNCHANGED cacheInputs

\* listCacheEntries: ListObjectsV2 answers
LcListOk ==
  /\ rcPc = "list"
  /\ LET entries == ToEntries(Contents(restoreKeys[rkIdx]))
     IN IF Len(entries) > 0
        THEN /\ LcReturn("hit", rkIdx, SortEntries(entries)[1])
             /\ RcAfterLookup(TRUE)
        ELSE LcRestoreLoop(rkIdx + 1)
  /\ UNCHANGED cacheInputs

\* listCacheEntries: ListObjectsV2 fails; a warning, and [] is returned
LcListError ==
  /\ rcPc = "list"
  /\ LcRestoreLoop(rkIdx + 1)
  /\ UNCHANGED cacheInputs

\* downloadFromS3: GetObject answers and the archive is extracted
RcDownloadOk ==
  /\ rcPc = "download"
  /\ S3Key(primaryKey, cachePaths[pathIdx]) \in DOMAIN store
  /\ IF pathIdx < Len(cachePaths)
     THEN RcDownload(pathIdx + 1)
     ELSE RcReturn("key", primaryKey)
  /\ UNCHANGED lastLookup
  /\ UNCHANGED cacheInputs

\* downloadFromS3 throws (NoSuchKey when the object does not exist, or any
\* failure of the transfer or the extraction); restoreCacheV2 catches
RcDownloadFail ==
  /\ rcPc = "download"
  /\ RcReturn("undefined", << >>)
  /\ UNCHANGED lastLookup
  /\ UNCHANGED cacheInputs

InitCacheCall ==
  /\ store \in Stores
  /\ primaryKey \in KeyNames
  /\ restoreKeys \in RestoreKeyLists
  /\ cachePaths \in CachePathLists
  /\ lookupOnly \in BOOLEAN
  /\ rcPc = "head"
  /\ pathIdx = 1
  /\ rkIdx = 0
  /\ listed = << >>
  /\ lastLookup = [ key |-> << >>, state |-> "none", via |-> 0,
                    entry |-> NoEntry, listed |-> << >> ]
  /\ downloads = << >>
  /\ rcResult = [ kind |-> "pending", key |-> << >> ]

----------------------------------------------------------------------------
(* getArtifact, deleteArtifact, listArtifacts: the facade functions and the *)
(* S3ArtifactManager methods they call.  A message is a sequence of words;  *)
(* `${error}` puts the name and the message of the error into the new one.  *)

\* retryableErrors of the S3ArtifactManager methods
ManagerRetryable ==
  << << "ECONNREFUSED" >>, << "ENOTFOUND" >>, << "ETIMEDOUT" >>,
     << "NetworkingError" >>, << "Temporary failure" >>, << "timeout" >>,
     << "Network error" >> >>

\* retryableErrors of the facade functions that call retry
FacadeRetryable == << << "Temporary failure" >>, << "timeout" >> >>

\* the failures of a request that do not report the key absent
BackendFailures == { "AccessDenied", "ETIMEDOUT", "timeout" }

\* what S3 may answer: HeadObject fails with NotFound on a missing key,
\* DeleteObject succeeds on a missing key
BackendReplies(op) ==
  (IF op = "getArtifact" /\ ~objectExists THEN { "NotFound" } ELSE { "ok" })
  \cup BackendFailures

\* the error s3Client.send rejects with
BackendError(reply) ==
  [ class |-> reply, message |-> << reply >>, code |-> << reply >> ]

\* `${error}`
ErrorToString(error) == << error.class >> \o error.message

\* the catch block of the method: what the backend error is rethrown as
ManagerError(op, error) ==
  CASE op = "getArtifact" ->
         [ class |-> "ArtifactNotFoundError",
           message |-> << "Failed to get artifact" >> \o ErrorToString(error),
           code |-> Undefined ]
    [] op = "deleteArtifact" ->
         [ class |-> "Error",
           message |-> << "Failed to delete artifact" >> \o ErrorToString(error),
           code |-> Undefined ]
    [] op = "listArtifacts" ->
         [ class |-> "Error",
           message |-> << "Failed to list artifacts" >> \o ErrorToString(error),
           code |-> Undefined ]

\* the facade variants that wrap the manager call in retry
FacadeRetries ==
  \/ fcOp = "getArtifact" /\ fcVariant = 1
  \/ fcOp = "deleteArtifact" /\ fcVariant = 2

FcSettle(state, kind, class) ==
  /\ fcPc' = "done"
  /\ fcResult' = [ state |-> state, kind |-> kind, class |-> class ]
  /\ UNCHANGED << mgrAttempt, facAttempt >>

\* the manager call fulfilled: the rest of the try block of the facade
FcOnValue ==
  CASE fcOp = "getArtifact" /\ fcVariant = 1 ->
         IF hasId
         THEN FcSettle("resolved", "artifact", "none")
         ELSE FcSettle("rejected", "error", "ArtifactNotFoundError")
    [] fcOp = "getArtifact" /\ fcVariant = 2 ->
         FcSettle("resolved", "artifact", "none")
    [] fcOp = "deleteArtifact" -> FcSettle("resolved", "ack", "none")
    [] fcOp = "listArtifacts" -> FcSettle("resolved", "list", "none")

\* the manager call (with the retry around it, if any) rejected: the catch
\* block of the facade
FcOnError(error) ==
  CASE fcOp = "getArtifact" /\ fcVariant = 1 ->
         IF error.class = "ArtifactNotFoundError" /\ ~failIfNotFound
         THEN FcSettle("resolved", "soft", "none")
         ELSE FcSettle("rejected", "error", "ArtifactNotFoundError")
    [] fcOp = "getArtifact" /\ fcVariant = 2 ->
         IF failIfNotFound
         THEN FcSettle("rejected", "error", error.class)
         ELSE FcSettle("rejected", "error", "ArtifactNotFoundError")
    [] fcOp = "deleteArtifact" /\ fcVariant = 1 ->
         IF failIfNotFound
         THEN FcSettle("rejected", "error", error.class)
         ELSE FcSettle("resolved", "ack", "none")
    [] fcOp = "deleteArtifact" /\ fcVariant = 2 ->
         IF error.class = "ArtifactNotFoundError" /\ ~failIfNotFound
         THEN FcSettle("resolved", "ack", "none")
         ELSE FcSettle("rejected", "error", error.class)
    [] fcOp = "listArtifacts" -> FcSettle("resolved", "empty", "none")

\* the backend answers the request of the manager method
FcReply(reply) ==
  /\ lastReply' = reply
  /\ sends' = sends + 1
  /\ IF reply \in { "ok" }
     THEN /\ mgrResult' = [ state |-> "fulfilled", class |-> "none",
                            cause |-> reply ]
          /\ FcOnValue
     ELSE LET error == ManagerError(fcOp, BackendError(reply))
          IN IF /\ IsRetryable(error, ManagerRetryable)
                /\ ~LastAttempt(mgrAttempt, DEFAULT_MAX_RETRIES)
             THEN /\ mgrAttempt' = mgrAttempt + 1
                  /\ UNCHANGED << facAttempt, mgrResult, fcResult, fcPc >>
             ELSE /\ mgrResult' = [ state |-> "rejected", class |-> error.class,
                                    cause |-> reply ]
                  /\ IF /\ FacadeRetries
                        /\ IsRetryable(error, FacadeRetryable)
                        /\ ~LastAttempt(facAttempt, DEFAULT_MAX_RETRIES)
                     THEN /\ facAttempt' = facAttempt + 1
                          /\ mgrAttempt' = 1
                          /\ UNCHANGED << fcResult, fcPc >>
                     ELSE FcOnError(error)
  /\ UNCHANGED << fcOp, fcVariant, failIfNotFound, objectExists, hasId >>

\* HeadObject answered
FcGetArtifactReply ==
  /\ fcPc = "send" /\ fcOp = "getArtifact"
  /\ \E reply \in BackendReplies(fcOp) : FcReply(reply)

\* DeleteObject answered
FcDeleteArtifactReply ==
  /\ fcPc = "send" /\ fcOp = "deleteArtifact"
  /\ \E reply \in BackendReplies(fcOp) : FcReply(reply)

\* ListObjectsV2 answered
FcListArtifactsReply ==
  /\ fcPc = "send" /\ fcOp = "listArtifacts"
  /\ \E reply \in BackendReplies(fcOp) : FcReply(reply)

\* the variables of the facade while another component runs
FacadeOff ==
  /\ fcOp = "none"
  /\ fcVariant = 1
  /\ failIfNotFound = FALSE
  /\ objectExists = FALSE
  /\ hasId = FALSE
  /\ fcPc = "done"
  /\ mgrAttempt = 0
  /\ facAttempt = 0
  /\ sends = 0
  /\ lastReply = "none"
  /\ mgrResult = [ state |-> "none", class |-> "none", cause |-> "none" ]
  /\ fcResult = [ state |-> "pending", kind |-> "none", class |-> "none" ]

InitFacadeCall ==
  /\ fcOp \in { "getArtifact", "deleteArtifact", "listArtifacts" }
  /\ fcVariant \in (IF fcOp = "listArtifacts" THEN { 1 } ELSE { 1, 2 })
  /\ failIfNotFound \in BOOLEAN
  /\ objectExists \in BOOLEAN
  /\ hasId \in BOOLEAN
  /\ fcPc = "send"
  /\ mgrAttempt = 1
  /\ facAttempt = 1
  /\ sends = 0
  /\ lastReply = "none"
  /\ mgrResult = [ state |-> "none", class |-> "none", cause |-> "none" ]
  /\ fcResult = [ state |-> "pending", kind |-> "none", class |-> "none" ]

----------------------------------------------------------------------------
(* saveCache and saveCacheV2, part_009:176-240 *)

\* the paths lists saveCache is called with
SavePathLists == { << >> } \cup CachePathLists

\* the keys saveCache is called with
SaveKeys == [ length : { 1, MaxKeyLength, MaxKeyLength + 1 }, comma : BOOLEAN ]

\* the names of the errors uploadToS3 rejects with
UploadErrorNames == { "Error", "ValidationError" }

\* utils.resolvePaths: the paths that exist, in the order given
RECURSIVE resolvePaths(_, _)
resolvePaths(paths, existing) ==
  IF paths = << >> THEN << >>
  ELSE ( IF Head(paths) \in existing THEN << Head(paths) >> ELSE << >> )
       \o resolvePaths(Tail(paths), existing)

\* checkPaths (part_009:21-27)
checkPaths(paths) == Len(paths) # 0

\* checkKey (part_009:29-41)
checkKey(key) == ~ ( key.length > MaxKeyLength ) /\ ~ key.comma

SvSettle(state, name, value) == [ state |-> state, name |-> name, value |-> value ]

\* saveCache, part_009:182-186, and getS3Config, part_009:205: the arguments are
\* checked and the bucket name is read
SvCheck ==
  /\ svPc = "check"
  /\ IF ~ checkPaths(svPaths) \/ ~ checkKey(svKey)
     THEN /\ svPc' = "done"
          /\ svResult' = SvSettle("rejected", "ValidationError", 0)
     ELSE IF ~ svBucketSet
     THEN /\ svPc' = "done"
          /\ svResult' = SvSettle("rejected", "Error", 0)
     ELSE /\ svPc' = "resolve"
          /\ UNCHANGED svResult
  /\ UNCHANGED << svPaths, svKey, svBucketSet, svExisting, svCachePaths, svI,
                  success, svUploaded, svFailed >>

\* saveCacheV2, part_009:207-216: the paths are resolved
SvResolve ==
  /\ svPc = "resolve"
  /\ svCachePaths' = resolvePaths(svPaths, svExisting)
  /\ IF Len(svCachePaths') = 0
     THEN /\ svPc' = "done"
          /\ svResult' = SvSettle("rejected", "Error", 0)
          /\ UNCHANGED << svI, success >>
     ELSE /\ svPc' = "upload"
          /\ svI' = 1
          /\ success' = 1
          /\ UNCHANGED svResult
  /\ UNCHANGED << svPaths, svKey, svBucketSet, svExisting, svUploaded, svFailed >>

\* the loop of saveCacheV2 moves to the next path, or returns `success` after
\* the last one (part_009:217, 239)
SvAdvance(s) ==
  IF svI = Len(svCachePaths)
  THEN /\ svPc' = "done"
       /\ svResult' = SvSettle("resolved", "none", s)
       /\ UNCHANGED svI
  ELSE /\ svI' = svI + 1
       /\ UNCHANGED << svPc, svResult >>

\* part_009:219-226: uploadToS3 resolves for the path
SvUploadOk ==
  /\ svPc = "upload"
  /\ svUploaded' = svUploaded \cup { svCachePaths[svI] }
  /\ SvAdvance(success)
  /\ UNCHANGED << svPaths, svKey, svBucketSet, svExisting, svCachePaths, success,
                  svFailed >>

\* part_009:227-236: uploadToS3 rejects for the path
SvUploadFail ==
  /\ svPc = "upload"
  /\ \E name \in UploadErrorNames :
       /\ svFailed' = svFailed \cup { svCachePaths[svI] }
       /\ success' = 0
       /\ IF name = "ValidationError"
          THEN /\ svPc' = "done"
               /\ svResult' = SvSettle("rejected", name, 0)
               /\ UNCHANGED svI
          ELSE SvAdvance(0)
  /\ UNCHANGED << svPaths, svKey, svBucketSet, svExisting, svCachePaths,
                  svUploaded >>

\* saveCache is not called
SaveOff ==
  /\ svPaths = << >> /\ svKey = [ length |-> 1, comma |-> FALSE ]
  /\ svBucketSet = FALSE /\ svExisting = {} /\ svPc = "off"
  /\ svCachePaths = << >> /\ svI = 0 /\ success = 0
  /\ svUploaded = {} /\ svFailed = {}
  /\ svResult = SvSettle("none", "none", 0)

\* saveCache is called
InitSaveCall ==
  /\ svPaths \in SavePathLists
  /\ svKey \in SaveKeys
  /\ svBucketSet \in BOOLEAN
  /\ svExisting \in SUBSET Paths
  /\ svPc = "check"
  /\ svCachePaths = << >> /\ svI = 0 /\ success = 0
  /\ svUploaded = {} /\ svFailed = {}
  /\ svResult = SvSettle("none", "none", 0)

----------------------------------------------------------------------------
(* getRetentionDays, retention.ts:6-22, and getExpiration, part_006:6-23 *)

\* the characters of the retention-days input
RetentionChars == { "0", "1", "9", "-", "x" }

\* the values of the retention-days input
RetentionInputs ==
  UNION { [ 1..m -> RetentionChars ] : m \in 0..MaxInputLen } \cup { Undefined }

\* the numbers parseInt returns: NaN, or an integer
NaN == [ nan |-> TRUE, v |-> 0 ]

Number(n) == [ nan |-> FALSE, v |-> n ]

IsDigit(c) == c \in { "0", "1", "9" }

DigitValue(c) == IF c = "0" THEN 0 ELSE IF c = "1" THEN 1 ELSE 9

\* the value of the longest prefix of digits of str, after the digits read
\* so far have value acc; NaN when there is no digit at all
RECURSIVE ParseDigits(_, _, _, _)
ParseDigits(str, radix, acc, seen) ==
  IF str # << >> /\ IsDigit(Head(str))
  THEN ParseDigits(Tail(str), radix, acc * radix + DigitValue(Head(str)), TRUE)
  ELSE IF seen THEN Number(acc) ELSE NaN

\* parseInt(str) without a radix: an optional sign, an optional 0x prefix
\* that selects base 16, then the longest prefix of digits; what follows the
\* digits is ignored
parseInt(str) ==
  LET negative == str # << >> /\ Head(str) = "-"
      unsigned == IF negative THEN Tail(str) ELSE str
      hex == Len(unsigned) >= 2 /\ unsigned[1] = "0" /\ unsigned[2] = "x"
      digits == IF hex THEN Tail(Tail(unsigned)) ELSE unsigned
      n == ParseDigits(digits, IF hex THEN 16 ELSE 10, 0, FALSE)
  IN IF n.nan THEN NaN ELSE IF negative THEN Number(0 - n.v) ELSE n

\* retention.ts:13-17, part_006:12-16: the number is refused
OutOfRange(n) == n.nan \/ n.v < MinRetention \/ n.v > MaxRetention

\* getRetentionDays, retention.ts:6-22
getRetentionDays(input) ==
  IF input = Undefined \/ input = << >>
  THEN [ kind |-> "undefined", v |-> 0 ]
  ELSE IF OutOfRange(parseInt(input))
       THEN [ kind |-> "thrown", v |-> 0 ]
       ELSE [ kind |-> "value", v |-> parseInt(input).v ]

\* Number.prototype.toString of an integer: its decimal digits
RECURSIVE ToDigits(_)
ToDigits(n) ==
  IF n < 10 THEN << n >> ELSE Append(ToDigits(n \div 10), n % 10)

\* the integer parseInt reads back from the digits of toString
RECURSIVE FromDigits(_, _)
FromDigits(ds, acc) ==
  IF ds = << >> THEN Number(acc)
  ELSE FromDigits(Tail(ds), acc * 10 + Head(ds))

\* the dates getExpiration returns
NoDate == [ kind |-> "undefined", day |-> 0 ]

Date(day) == [ kind |-> "date", day |-> day ]

\* getExpiration, part_006:6-23, on the date `now`
getExpiration(days, now) ==
  IF days.kind # "value" \/ days.v = 0
  THEN NoDate
  ELSE LET retentionDaysInt == FromDigits(ToDigits(days.v), 0)
       IN IF OutOfRange(retentionDaysInt) THEN NoDate
          ELSE Date(now + retentionDaysInt.v)

\* getRetentionDays is called
RdGetRetentionDays ==
  /\ rdPc = "call"
  /\ rdResult' = getRetentionDays(retentionDays)
  /\ rdPc' = IF rdResult'.kind = "thrown" THEN "done" ELSE "returned"
  /\ UNCHANGED << retentionDays, today, expirationDate >>

\* getExpiration is called with what getRetentionDays returned
RdGetExpiration ==
  /\ rdPc = "returned"
  /\ expirationDate' = getExpiration(rdResult, today)
  /\ rdPc' = "done"
  /\ UNCHANGED << retentionDays, today, rdResult >>

\* getRetentionDays is not called
RetentionOff ==
  /\ retentionDays = Undefined /\ today = 0 /\ rdPc = "off"
  /\ rdResult = [ kind |-> "none", v |-> 0 ] /\ expirationDate = NoDate

InitRetentionCall ==
  /\ retentionDays \in RetentionInputs
  /\ today \in 0..MaxToday
  /\ rdPc = "call"
  /\ rdResult = [ kind |-> "none", v |-> 0 ]
  /\ expirationDate = NoDate

----------------------------------------------------------------------------
(* streamExtract and streamExtractExternal, download-artifact.ts:81-153;
   downloadFromS3, part_011:108-159 *)

StreamExtract == "streamExtract"
DownloadFromS3 == "downloadFromS3"

\* download-artifact.ts:87-94: streamExtractExternal rejected; streamExtract
\* counts the failure and waits 5 s.  part_011:153-155: downloadFromS3 rethrows.
DlAttemptFails ==
  IF dlFn = StreamExtract
  THEN /\ retryCount' = retryCount + 1
       /\ dlPc' = "wait"
       /\ UNCHANGED dlResult
  ELSE /\ dlPc' = "done"
       /\ dlResult' = "rejected"
       /\ UNCHANGED retryCount

\* download-artifact.ts:106-131, part_011:118-147: the GET request answered
\* with a body; the stream is piped to the sink (and the timer is set)
DlOpenOk ==
  /\ dlPc = "open"
  /\ dlPc' = "stream"
  /\ downloadStream' = "flowing"
  /\ downloadedBytes' = 0
  /\ timer' = (dlFn = StreamExtract)
  /\ sinceRefresh' = 0
  /\ timerFired' = FALSE
  /\ UNCHANGED << dlFn, isS3, objectSize, retryCount, attempts, truncated,
                  dlResult >>

\* download-artifact.ts:75-78, 113-117, part_011:125-127: the request failed,
\* the status is not 200, or there is no body
DlOpenFail ==
  /\ dlPc = "open"
  /\ DlAttemptFails
  /\ UNCHANGED << dlFn, isS3, objectSize, attempts, downloadStream,
                  downloadedBytes, timer, sinceRefresh, timerFired, truncated >>

\* download-artifact.ts:134-136, part_011:131-136: a data event
DlData ==
  /\ dlPc = "stream" /\ downloadStream = "flowing"
  /\ \E n \in 1..(objectSize - downloadedBytes) :
       downloadedBytes' = downloadedBytes + n
  /\ sinceRefresh' = IF timer THEN 0 ELSE sinceRefresh
  /\ UNCHANGED << dlFn, isS3, objectSize, dlPc, retryCount, attempts,
                  downloadStream, timer, timerFired, truncated, dlResult >>

\* download-artifact.ts:144-148, part_011:143-151: the stream ends, after all
\* the bytes or short of them, and the sink closes
DlEnd ==
  /\ dlPc = "stream" /\ downloadStream = "flowing"
  /\ downloadStream' = "ended"
  /\ truncated' = (truncated \/ downloadedBytes < objectSize)
  /\ timer' = FALSE
  /\ dlPc' = "done"
  /\ dlResult' = "resolved"
  /\ UNCHANGED << dlFn, isS3, objectSize, retryCount, attempts, downloadedBytes,
                  sinceRefresh, timerFired >>

\* download-artifact.ts:149-151: the stream ends short and the extractor
\* refuses the incomplete archive
DlExtractError ==
  /\ dlFn = StreamExtract
  /\ dlPc = "stream" /\ downloadStream = "flowing"
  /\ downloadedBytes < objectSize
  /\ downloadStream' = "ended"
  /\ truncated' = TRUE
  /\ DlAttemptFails
  /\ UNCHANGED << dlFn, isS3, objectSize, attempts, downloadedBytes, timer,
                  sinceRefresh, timerFired >>

\* download-artifact.ts:137-143: the stream emits 'error'.  The stream of
\* downloadFromS3 (part_011:129-147) has no 'error' listener: the event is
\* thrown as an uncaught exception.
DlStreamError ==
  /\ dlPc = "stream" /\ downloadStream = "flowing"
  /\ downloadStream' = "errored"
  /\ IF dlFn = StreamExtract
     THEN /\ timer' = FALSE
          /\ DlAttemptFails
     ELSE /\ dlPc' = "crashed"
          /\ UNCHANGED << timer, retryCount, dlResult >>
  /\ UNCHANGED << dlFn, isS3, objectSize, attempts, downloadedBytes,
                  sinceRefresh, timerFired, truncated >>

\* download-artifact.ts:126-131: time passes without a data event; when the
\* timeout is reached timerFn runs.  timerFn names `response`, which is
\* declared inside the else block of lines 109-119 and is not in scope: the
\* call throws a ReferenceError out of the timer callback.  The stream is not
\* destroyed; the uncaught exception ends the process, or a handler swallows
\* it and the promise stays pending.
DlTick ==
  /\ dlPc = "stream" /\ downloadStream = "flowing" /\ timer
  /\ sinceRefresh' = sinceRefresh + TickMs
  /\ IF sinceRefresh' >= downloadTimeout
     THEN /\ timerFired' = TRUE
          /\ timer' = FALSE
          /\ dlPc' \in { "crashed", "hung" }
     ELSE UNCHANGED << timerFired, timer, dlPc >>
  /\ UNCHANGED << dlFn, isS3, objectSize, retryCount, attempts, downloadStream,
                  downloadedBytes, truncated, dlResult >>

\* download-artifact.ts:83-97: the 5 s wait is over; streamExtract tries again
\* or gives up
DlRetry ==
  /\ dlPc = "wait"
  /\ IF retryCount < MaxDownloadAttempts
     THEN /\ dlPc' = "open"
          /\ attempts' = attempts + 1
          /\ UNCHANGED dlResult
     ELSE /\ dlPc' = "done"
          /\ dlResult' = "rejected"
          /\ UNCHANGED attempts
  /\ UNCHANGED << dlFn, isS3, objectSize, retryCount, downloadStream,
                  downloadedBytes, timer, sinceRefresh, timerFired, truncated >>

\* no download runs
DownloadOff ==
  /\ dlFn = "none" /\ isS3 = FALSE /\ objectSize = 0 /\ dlPc = "off"
  /\ retryCount = 0 /\ attempts = 0 /\ downloadStream = "none"
  /\ downloadedBytes = 0 /\ timer = FALSE /\ sinceRefresh = 0
  /\ timerFired = FALSE /\ truncated = FALSE /\ dlResult = "pending"

\* streamExtract or downloadFromS3 is called: the first request is sent
InitDownloadCall ==
  /\ dlFn \in { StreamExtract, DownloadFromS3 }
  /\ isS3 \in IF dlFn = StreamExtract THEN BOOLEAN ELSE { TRUE }
  /\ objectSize \in 1..MaxObjectSize
  /\ dlPc = "open"
  /\ retryCount = 0 /\ attempts = 1 /\ downloadStream = "none"
  /\ downloadedBytes = 0 /\ timer = FALSE /\ sinceRefresh = 0
  /\ timerFired = FALSE /\ truncated = FALSE /\ dlResult = "pending"

----------------------------------------------------------------------------
(* UploadProgress, part_015:9-113 *)

\* the Progress events: `loaded` is a number or is absent
ProgressEvents ==
  [ defined : { TRUE }, loaded : 0..MaxLoaded ]
    \cup { [ defined |-> FALSE, loaded |-> 0 ] }

\* part_015:80: progress.loaded ?? 0
LoadedOrZero(progress) == IF progress.defined THEN progress.loaded ELSE 0

\* part_015:35-37
getTransferredBytes == sentBytes

\* the upload counts as complete once contentLength is reached or passed
isDoneAtLeast == getTransferredBytes >= contentLength

\* part_015:42-44
isDone == getTransferredBytes = contentLength

\* a display() that never records that the last line was printed
displayForgets == displayedComplete' = displayedComplete

\* part_015:50-73: display() prints a line unless the last line was printed,
\* and records that the last line was printed
display ==
  displayedComplete' = IF displayedComplete THEN TRUE ELSE isDone

\* part_015:78-82 and 28-30: the handler of onProgress() gets a Progress event
UpOnProgress ==
  /\ contentLength >= 0 /\ upEvents < MaxEvents
  /\ \E progress \in ProgressEvents :
       /\ sentBytes' = LoadedOrZero(progress)
       /\ upLast' = progress
  /\ upEvents' = upEvents + 1
  /\ UNCHANGED << contentLength, displayedComplete, timeoutHandle, upScheduled,
                  upHandles >>

\* part_015:89-98: startDisplayTimer()
UpStartDisplayTimer ==
  /\ contentLength >= 0 /\ upHandles < MaxHandles
  /\ upHandles' = upHandles + 1
  /\ timeoutHandle' = upHandles'
  /\ upScheduled' = upScheduled \cup { upHandles' }
  /\ UNCHANGED << contentLength, sentBytes, displayedComplete, upEvents, upLast >>

\* part_015:90-96: a scheduled timeout runs displayCallback
UpDisplayCallback ==
  /\ \E h \in upScheduled :
       /\ display
       /\ IF ~ isDone
          THEN /\ upHandles < MaxHandles
               /\ upHandles' = upHandles + 1
               /\ timeoutHandle' = upHandles'
               /\ upScheduled' = (upScheduled \ { h }) \cup { upHandles' }
          ELSE /\ upScheduled' = upScheduled \ { h }
               /\ UNCHANGED << upHandles, timeoutHandle >>
  /\ UNCHANGED << contentLength, sentBytes, upEvents, upLast >>

\* part_015:50-73: a call of display()
UpDisplay ==
  /\ contentLength >= 0
  /\ display
  /\ UNCHANGED << contentLength, sentBytes, timeoutHandle, upScheduled,
                  upHandles, upEvents, upLast >>

\* part_015:105-112: stopDisplayTimer()
UpStopDisplayTimer ==
  /\ contentLength >= 0
  /\ IF timeoutHandle # 0
     THEN /\ upScheduled' = upScheduled \ { timeoutHandle }
          /\ timeoutHandle' = 0
     ELSE UNCHANGED << upScheduled, timeoutHandle >>
  /\ display
  /\ UNCHANGED << contentLength, sentBytes, upHandles, upEvents, upLast >>

\* no UploadProgress exists
ProgressOff ==
  /\ contentLength = 0 - 1 /\ sentBytes = 0 /\ displayedComplete = FALSE
  /\ timeoutHandle = 0 /\ upScheduled = {} /\ upHandles = 0 /\ upEvents = 0
  /\ upLast = [ defined |-> FALSE, loaded |-> 0 ]

\* part_015:16-21: new UploadProgress(contentLength)
InitProgressCall ==
  /\ contentLength \in 0..MaxContentLength
  /\ sentBytes = 0 /\ displayedComplete = FALSE
  /\ timeoutHandle = 0 /\ upScheduled = {} /\ upHandles = 0 /\ upEvents = 0
  /\ upLast = [ defined |-> FALSE, loaded |-> 0 ]

----------------------------------------------------------------------------
(* getArtifactManager, part_003:8-11 and 17-42 *)

\* what getS3Config() can do: return a configuration with a bucket, one
\* without, return nothing, or throw with one message or another
S3Configs == { "ok", "noBucket", "undefined", "throwsRequired", "throwsOther" }

ConfigRequired == << "S3 configuration is required" >>
BucketRequired == << "S3 bucket is required" >>
OtherMessage == << "other" >>

\* the message getS3Config() throws with
ConfigThrows(config) ==
  IF config = "throwsRequired" THEN ConfigRequired ELSE OtherMessage

GmReturned(instance) == [ kind |-> "returned", instance |-> instance, message |-> << >> ]
GmThrown(message) == [ kind |-> "thrown", instance |-> 0, message |-> message ]

\* part_003:8-11: a new manager on every call, whatever the configuration
\* holds; an error of getS3Config passes through
getArtifactManagerNew(config, instance) ==
  IF config \in { "throwsRequired", "throwsOther" }
  THEN GmThrown(ConfigThrows(config))
  ELSE GmReturned(instance)

\* part_003:19-42 with artifactManager undefined
getArtifactManagerFirst(config, instance) ==
  IF config = "undefined" \/ config = "throwsRequired"
  THEN GmThrown(ConfigRequired)
  ELSE IF config = "noBucket"
  THEN GmThrown(BucketRequired)
  ELSE IF config = "throwsOther"
  THEN GmThrown(ConfigRequired \o << ": " >> \o OtherMessage)
  ELSE GmReturned(instance)

\* getArtifactManager() is called
GmCall ==
  /\ gmVariant \in { 1, 2 } /\ gmCalls < MaxManagerCalls
  /\ gmCalls' = gmCalls + 1
  /\ LET outcome ==
           IF gmVariant = 1
           THEN getArtifactManagerNew(s3Config, gmCalls')
           ELSE IF artifactManager # 0
           THEN GmReturned(artifactManager)
           ELSE getArtifactManagerFirst(s3Config, gmCalls')
     IN /\ gmLast' = [ outcome |-> outcome, config |-> s3Config ]
        /\ artifactManager' =
             IF gmVariant = 2 /\ outcome.kind = "returned"
             THEN outcome.instance ELSE artifactManager
  /\ UNCHANGED << gmVariant, s3Config >>

\* the environment changes: getS3Config() behaves differently from now on
GmConfigChanges ==
  /\ gmVariant \in { 1, 2 }
  /\ s3Config' \in S3Configs \ { s3Config }
  /\ UNCHANGED << gmVariant, artifactManager, gmCalls, gmLast >>

NoCall == [ outcome |-> [ kind |-> "none", instance |-> 0, message |-> << >> ],
            config |-> "ok" ]

\* getArtifactManager is not used
ManagerOff ==
  /\ gmVariant = 0 /\ s3Config = "ok" /\ artifactManager = 0 /\ gmCalls = 0
  /\ gmLast = NoCall

\* the module is loaded: no manager yet
InitManagerCall ==
  /\ gmVariant \in { 1, 2 } /\ s3Config \in S3Configs
  /\ artifactManager = 0 /\ gmCalls = 0 /\ gmLast = NoCall

----------------------------------------------------------------------------
(* uploadToS3, the multipart branch, part_014:159-213 *)

MpPending == [ state |-> "pending", error |-> "none" ]

\* the catch block is entered with `error`: AbortMultipartUpload is sent
MpCatch(error) ==
  /\ mpError' = error
  /\ mpSent' = Append(mpSent, "AbortMultipartUpload")
  /\ mpPc' = "abort"

\* part_014:161-178: CreateMultipartUpload returned an upload id
MpCreateOk ==
  /\ mpPc = "create"
  /\ mpPc' = "read"
  /\ mpPartNumber' = 1
  /\ UNCHANGED << mpFileSize, mpChunkSize, mpChunks, mpRequests, mpParts,
                  mpSent, mpError, mpResult >>

\* part_014:161: CreateMultipartUpload failed, outside the try block
MpCreateFail ==
  /\ mpPc = "create"
  /\ mpPc' = "done"
  /\ mpResult' = [ state |-> "rejected", error |-> "CreateMultipartUpload" ]
  /\ UNCHANGED << mpFileSize, mpChunkSize, mpPartNumber, mpChunks, mpRequests,
                  mpParts, mpSent, mpError >>

\* part_014:180-189, 195: the stream yields its next chunk, which is sent as
\* a part, or has ended, and CompleteMultipartUpload is sent
MpRead ==
  /\ mpPc = "read"
  /\ LET read == Len(mpChunks) * mpChunkSize
     IN IF read < mpFileSize
        THEN LET nextChunk == Bytes(read, Min(read + mpChunkSize, mpFileSize))
             IN /\ mpChunks' = Append(mpChunks, nextChunk)
                /\ mpRequests' = Append(mpRequests,
                                        [ PartNumber |-> mpPartNumber,
                                          Body |-> nextChunk ])
                /\ mpSent' = Append(mpSent, "UploadPart")
                /\ mpPc' = "part"
        ELSE /\ mpSent' = Append(mpSent, "CompleteMultipartUpload")
             /\ mpPc' = "complete"
             /\ UNCHANGED << mpChunks, mpRequests >>
  /\ UNCHANGED << mpFileSize, mpChunkSize, mpPartNumber, mpParts, mpError,
                  mpResult >>

\* part_014:180: reading the file fails
MpReadFail ==
  /\ mpPc = "read"
  /\ MpCatch("read")
  /\ UNCHANGED << mpFileSize, mpChunkSize, mpPartNumber, mpChunks, mpRequests,
                  mpParts, mpResult >>

\* the part number is not advanced
MpSamePartNumber == mpPartNumber

\* part_014:192: partNumber++
MpNextPartNumber == mpPartNumber + 1

\* part_014:189-192: the UploadPart request returned an ETag (the ETag of
\* request k is written k)
MpPartOk ==
  /\ mpPc = "part"
  /\ mpParts' = Append(mpParts, [ ETag |-> Len(mpRequests),
                                  PartNumber |-> mpPartNumber ])
  /\ mpPartNumber' = MpNextPartNumber
  /\ mpPc' = "read"
  /\ UNCHANGED << mpFileSize, mpChunkSize, mpChunks, mpRequests, mpSent,
                  mpError, mpResult >>

\* part_014:189, 203: the UploadPart request failed
MpPartFail ==
  /\ mpPc = "part"
  /\ MpCatch("UploadPart")
  /\ UNCHANGED << mpFileSize, mpChunkSize, mpPartNumber, mpChunks, mpRequests,
                  mpParts, mpResult >>

\* part_014:195-202: CompleteMultipartUpload succeeded
MpCompleteOk ==
  /\ mpPc = "complete"
  /\ mpPc' = "done"
  /\ mpResult' = [ state |-> "resolved", error |-> "none" ]
  /\ UNCHANGED << mpFileSize, mpChunkSize, mpPartNumber, mpChunks, mpRequests,
                  mpParts, mpSent, mpError >>

\* part_014:195, 203: CompleteMultipartUpload failed
MpCompleteFail ==
  /\ mpPc = "complete"
  /\ MpCatch("CompleteMultipartUpload")
  /\ UNCHANGED << mpFileSize, mpChunkSize, mpPartNumber, mpChunks, mpRequests,
                  mpParts, mpResult >>

\* part_014:204-211: AbortMultipartUpload succeeded; the error caught is
\* rethrown
MpAbortOk ==
  /\ mpPc = "abort"
  /\ mpPc' = "done"
  /\ mpResult' = [ state |-> "rejected", error |-> mpError ]
  /\ UNCHANGED << mpFileSize, mpChunkSize, mpPartNumber, mpChunks, mpRequests,
                  mpParts, mpSent, mpError >>

\* part_014:204-210: AbortMultipartUpload failed; the await in the catch
\* block throws and `throw error` is not reached
MpAbortFail ==
  /\ mpPc = "abort"
  /\ mpPc' = "done"
  /\ mpResult' = [ state |-> "rejected", error |-> "AbortMultipartUpload" ]
  /\ UNCHANGED << mpFileSize, mpChunkSize, mpPartNumber, mpChunks, mpRequests,
                  mpParts, mpSent, mpError >>

\* uploadToS3 is not called
MultipartOff ==
  /\ mpFileSize = 0 /\ mpChunkSize = 0 /\ mpPc = "off" /\ mpPartNumber = 0
  /\ mpChunks = << >> /\ mpRequests = << >> /\ mpParts = << >>
  /\ mpSent = << >> /\ mpError = "none" /\ mpResult = MpPending

\* part_014:146, 159-169: uploadToS3 takes the multipart branch and sends
\* CreateMultipartUpload
InitMultipartCall ==
  /\ mpChunkSize \in 1..MaxArchiveChunk
  /\ mpFileSize \in (mpChunkSize + 1)..MaxArchive
  /\ mpPc = "create" /\ mpPartNumber = 0
  /\ mpChunks = << >> /\ mpRequests = << >> /\ mpParts = << >>
  /\ mpSent = << "CreateMultipartUpload" >> /\ mpError = "none"
  /\ mpResult = MpPending

----------------------------------------------------------------------------
(* uploadZipToS3 under an observer's clock, s3-upload.ts:22-144 *)

\* a progress event happens: the source emits data (s3-upload.ts:66-69 when a
\* chunk read listens) or a part upload completes (s3-upload.ts:132-144)
ClockReset == sinceProgress' = 0

\* time passes
ClockAdvance == sinceProgress' = sinceProgress + TickMs

ClockKeeps == UNCHANGED sinceProgress

\* the observer is not used
ClockOff == sinceProgress = 0

----------------------------------------------------------------------------
(* uploadFile, cacheHttpClient.ts:264-324 *)

\* a chunk that ends one byte late
ChunkEndExclusive(start, size) == start + size

\* cacheHttpClient.ts:295: const end = offset + chunkSize - 1
ChunkEnd(start, size) == start + size - 1

\* cacheHttpClient.ts:292-298: the workers of `order`, one after the other,
\* each run their loop from its head to its next await: a worker takes the
\* chunk at `offset` and calls uploadChunk, or finds offset >= fileSize and
\* returns.  st = [ offset, workers, ranges, late ].
RECURSIVE UfRun(_, _)
UfRun(order, st) ==
  IF order = << >> THEN st
  ELSE LET w == Head(order)
       IN IF st.offset < ufFileSize
          THEN LET size == Min(ufFileSize - st.offset, maxChunkSize)
               IN UfRun(Tail(order),
                        [ offset |-> st.offset + maxChunkSize,
                          workers |-> [ st.workers EXCEPT ![w] = "uploading" ],
                          ranges |-> Append(st.ranges,
                                            << st.offset, ChunkEnd(st.offset, size) >>),
                          late |-> st.late + IF fdOpen THEN 0 ELSE 1 ])
          ELSE UfRun(Tail(order),
                     [ st EXCEPT !.workers = [ st.workers EXCEPT ![w] = "stopped" ] ])

UfState == [ offset |-> ufOffset, workers |-> workers, ranges |-> ufRanges,
             late |-> readsOnClosedFd ]

UfApply(st) ==
  /\ ufOffset' = st.offset
  /\ workers' = st.workers
  /\ ufRanges' = st.ranges
  /\ readsOnClosedFd' = st.late

\* cacheHttpClient.ts:290, 320-322: Promise.all settles once a worker has
\* failed or all have returned; the finally block closes fd
UfSettle ==
  IF ufResult # "pending"
  THEN UNCHANGED << ufResult, fdOpen >>
  ELSE IF \E w \in DOMAIN workers' : workers'[w] = "failed"
  THEN /\ ufResult' = "rejected"
       /\ fdOpen' = FALSE
  ELSE IF \A w \in DOMAIN workers' : workers'[w] = "stopped"
  THEN /\ ufResult' = "resolved"
       /\ fdOpen' = FALSE
  ELSE UNCHANGED << ufResult, fdOpen >>

\* cacheHttpClient.ts:285-291: parallelUploads.map starts every worker, each
\* running to its first await before the next starts
UfSpawn ==
  /\ concurrency >= 1
  /\ \A w \in DOMAIN workers : workers[w] = "new"
  /\ UfApply(UfRun([ w \in 1..concurrency |-> w ], UfState))
  /\ UfSettle
  /\ UNCHANGED << ufFileSize, maxChunkSize, concurrency >>

\* cacheHttpClient.ts:298-317: the uploadChunk of worker w resolved; the worker
\* goes round its loop
UfChunkOk ==
  /\ \E w \in DOMAIN workers :
       /\ workers[w] = "uploading"
       /\ UfApply(UfRun(<< w >>, UfState))
  /\ UfSettle
  /\ UNCHANGED << ufFileSize, maxChunkSize, concurrency >>

\* cacheHttpClient.ts:257-261, 298: the uploadChunk of worker w rejected
UfChunkFail ==
  /\ \E w \in DOMAIN workers :
       /\ workers[w] = "uploading"
       /\ workers' = [ workers EXCEPT ![w] = "failed" ]
  /\ UfSettle
  /\ UNCHANGED << ufFileSize, maxChunkSize, concurrency, ufOffset, ufRanges,
                  readsOnClosedFd >>

\* uploadFile is not called
UploadFileOff ==
  /\ ufFileSize = 0 /\ maxChunkSize = 0 /\ concurrency = 0 /\ ufOffset = 0
  /\ workers = << >> /\ ufRanges = << >> /\ fdOpen = FALSE
  /\ readsOnClosedFd = 0 /\ ufResult = "pending"

\* cacheHttpClient.ts:271-287: uploadFile is called and fd is opened
InitUploadFileCall ==
  /\ ufFileSize \in 0..MaxUploadFile
  /\ maxChunkSize \in 1..MaxUploadChunk
  /\ concurrency \in 1..MaxWorkers
  /\ ufOffset = 0
  /\ workers = [ w \in 1..concurrency |-> "new" ]
  /\ ufRanges = << >> /\ fdOpen = TRUE /\ readsOnClosedFd = 0
  /\ ufResult = "pending"

----------------------------------------------------------------------------
(* The output of an UploadProgress, part_015:50-73 and 105-112 *)

\* part_015:51-53, 66-68: display() prints a line unless displayedComplete
TickerPrints ==
  IF displayedComplete
  THEN UNCHANGED << upLines, printedDone >>
  ELSE /\ upLines < MaxLines
       /\ upLines' = upLines + 1
       /\ printedDone' = ( printedDone \/ isDone )

\* the observer is not used
TickerOff == upLines = 0 /\ printedDone = FALSE /\ upStopped = FALSE

----------------------------------------------------------------------------
(* S3ArtifactManager.uploadArtifact, artifact-manager.ts:426-481 *)

\* the bucket opens a session under an id it has not issued before
OpenSession(by) ==
  Append(sessions, [ id |-> Len(sessions) + 1, attempt |-> uaAttempt, by |-> by ])

\* the id of the session opened first
FirstUploadId(ss) == ss[1].id

\* artifact-manager.ts:437: const {UploadId} = await this.s3Client.send(command)
CreatedUploadId(ss) == ss[Len(ss)].id

\* artifact-manager.ts:463-465
isTemporary(error) ==
  \/ error.message # Undefined /\ Includes(error.message, << "Temporary failure" >>)
  \/ error.code = << "NetworkingError" >>
  \/ error.message # Undefined /\ Includes(error.message, << "timeout" >>)

\* artifact-manager.ts:462-473: what the catch block throws
UaCaught(error) ==
  IF isTemporary(error) THEN error
  ELSE [ class |-> "S3UploadError",
         message |-> << "Failed to upload artifact" >> \o ErrorToString(error),
         code |-> error.code ]

\* artifact-manager.ts:430, 475-479 and retry: a request of the attempt failed;
\* the attempt is given up and retry starts the next one or rejects
UaFail(reply) ==
  LET error == UaCaught(BackendError(reply))
  IN /\ IF /\ IsRetryable(error, ManagerRetryable)
           /\ ~ LastAttempt(uaAttempt, DEFAULT_MAX_RETRIES)
        THEN /\ uaAttempt' = uaAttempt + 1
             /\ uaPc' = "create"
             /\ UNCHANGED uaResult
        ELSE /\ uaPc' = "done"
             /\ uaResult' = [ state |-> "rejected", class |-> error.class,
                              uploadId |-> 0, attempt |-> uaAttempt ]
             /\ UNCHANGED uaAttempt
     /\ UploadId' = 0
     /\ uaUpload' = 0

\* artifact-manager.ts:433-437: CreateMultipartUpload answered
UaCreateOk ==
  /\ uaPc = "create"
  /\ sessions' = OpenSession("uploadArtifact")
  /\ UploadId' = CreatedUploadId(sessions')
  /\ uaPc' = "upload"
  /\ UNCHANGED << uaAttempt, uaUpload, uaParts, uaResult >>

\* artifact-manager.ts:437, 462: CreateMultipartUpload failed
UaCreateFail ==
  /\ uaPc = "create"
  /\ \E reply \in BackendFailures : UaFail(reply)
  /\ UNCHANGED << sessions, uaParts >>

\* artifact-manager.ts:439-448: the Upload is given the bucket, the key and the
\* body but no UploadId; for a body of several parts it opens a session itself
UaUploadOpen ==
  /\ uaPc = "upload" /\ uaUpload = 0
  /\ sessions' = OpenSession("Upload")
  /\ uaUpload' = CreatedUploadId(sessions')
  /\ UNCHANGED << uaPc, uaAttempt, UploadId, uaParts, uaResult >>

\* artifact-manager.ts:448: the Upload sends a part to its session
UaUploadPart ==
  /\ uaPc = "upload" /\ uaUpload # 0
  /\ Cardinality({ part \in uaParts : part.attempt = uaAttempt }) < MaxUploadParts
  /\ uaParts' = uaParts \cup
       { [ attempt |-> uaAttempt, session |-> uaUpload,
           number |-> 1 + Cardinality({ part \in uaParts :
                                          part.attempt = uaAttempt }) ] }
  /\ UNCHANGED << uaPc, uaAttempt, sessions, UploadId, uaUpload, uaResult >>

\* artifact-manager.ts:448: upload.done() resolved, after a PutObject or after
\* the Upload completed its session
UaUploadDone ==
  /\ uaPc = "upload"
  /\ uaUpload # 0 => \E part \in uaParts : part.attempt = uaAttempt
  /\ uaPc' = "head"
  /\ UNCHANGED << uaAttempt, sessions, UploadId, uaUpload, uaParts, uaResult >>

\* artifact-manager.ts:448, 462: upload.done() rejected
UaUploadFail ==
  /\ uaPc = "upload"
  /\ \E reply \in BackendFailures : UaFail(reply)
  /\ UNCHANGED << sessions, uaParts >>

\* artifact-manager.ts:450-461: HeadObject answered
UaHeadOk ==
  /\ uaPc = "head"
  /\ uaPc' = "done"
  /\ uaResult' = [ state |-> "resolved", class |-> "none",
                   uploadId |-> UploadId, attempt |-> uaAttempt ]
  /\ UNCHANGED << uaAttempt, sessions, UploadId, uaUpload, uaParts >>

\* artifact-manager.ts:450-455, 462: HeadObject failed
UaHeadFail ==
  /\ uaPc = "head"
  /\ \E reply \in BackendFailures : UaFail(reply)
  /\ UNCHANGED << sessions, uaParts >>

\* uploadArtifact is not called
UploadArtifactOff ==
  /\ uaPc = "done" /\ uaAttempt = 0 /\ sessions = << >> /\ UploadId = 0
  /\ uaUpload = 0 /\ uaParts = {}
  /\ uaResult = [ state |-> "pending", class |-> "none", uploadId |-> 0,
                  attempt |-> 0 ]

\* artifact-manager.ts:426-431: uploadArtifact(key, stream) is called
InitUploadArtifactCall ==
  /\ uaPc = "create" /\ uaAttempt = 1 /\ sessions = << >> /\ UploadId = 0
  /\ uaUpload = 0 /\ uaParts = {}
  /\ uaResult = [ state |-> "pending", class |-> "none", uploadId |-> 0,
                  attempt |-> 0 ]

----------------------------------------------------------------------------

\* every variable of the module
allVars == << vars, storageVars, retryVars, cacheVars, facadeVars, saveVars,
              retentionVars, downloadVars, progressVars, managerVars,
              multipartVars, clockVars, uploadFileVars, tickerVars,
              uploadArtifactVars >>

\* a step of one component leaves the variables of the others alone
EngineOnly == UNCHANGED << storageVars, retryVars, cacheVars, facadeVars,
                           saveVars, retentionVars, downloadVars,
                           progressVars, managerVars, multipartVars,
                           clockVars, uploadFileVars, tickerVars,
                           uploadArtifactVars >>

StorageOnly == UNCHANGED << vars, retryVars, cacheVars, facadeVars, saveVars,
                            retentionVars, downloadVars, progressVars,
                            managerVars, multipartVars, clockVars,
                            uploadFileVars, tickerVars, uploadArtifactVars >>

RetryOnly == UNCHANGED << vars, storageVars, cacheVars, facadeVars, saveVars,
                          retentionVars, downloadVars, progressVars,
                          managerVars, multipartVars, clockVars,
                          uploadFileVars, tickerVars, uploadArtifactVars >>

CacheOnly == UNCHANGED << vars, storageVars, retryVars, facadeVars, saveVars,
                          retentionVars, downloadVars, progressVars,
                          managerVars, multipartVars, clockVars,
                          uploadFileVars, tickerVars, uploadArtifactVars >>

FacadeOnly == UNCHANGED << vars, storageVars, retryVars, cacheVars, saveVars,
                           retentionVars, downloadVars, progressVars,
                           managerVars, multipartVars, clockVars,
                           uploadFileVars, tickerVars, uploadArtifactVars >>

SaveOnly == UNCHANGED << vars, storageVars, retryVars, cacheVars, facadeVars,
                         retentionVars, downloadVars, progressVars,
                         managerVars, multipartVars, clockVars,
                         uploadFileVars, tickerVars, uploadArtifactVars >>

RetentionOnly == UNCHANGED << vars, storageVars, retryVars, cacheVars,
                              facadeVars, saveVars, downloadVars,
                              progressVars, managerVars, multipartVars,
                              clockVars, uploadFileVars, tickerVars,
                              uploadArtifactVars >>

DownloadOnly == UNCHANGED << vars, storageVars, retryVars, cacheVars,
                             facadeVars, saveVars, retentionVars,
                             progressVars, managerVars, multipartVars,
                             clockVars, uploadFileVars, tickerVars,
                             uploadArtifactVars >>

ProgressOnly == UNCHANGED << vars, storageVars, retryVars, cacheVars,
                             facadeVars, saveVars, retentionVars,
                             downloadVars, managerVars, multipartVars,
                             clockVars, uploadFileVars, tickerVars,
                             uploadArtifactVars >>

ManagerOnly == UNCHANGED << vars, storageVars, retryVars, cacheVars,
                            facadeVars, saveVars, retentionVars,
                            downloadVars, progressVars, multipartVars,
                            clockVars, uploadFileVars, tickerVars,
                            uploadArtifactVars >>

MultipartOnly == UNCHANGED << vars, storageVars, retryVars, cacheVars,
                              facadeVars, saveVars, retentionVars,
                              downloadVars, progressVars, managerVars,
                              clockVars, uploadFileVars, tickerVars,
                              uploadArtifactVars >>

ClockOnly == UNCHANGED << vars, storageVars, retryVars, cacheVars,
                          facadeVars, saveVars, retentionVars, downloadVars,
                          progressVars, managerVars, multipartVars,
                          uploadFileVars, tickerVars, uploadArtifactVars >>

UploadFileOnly == UNCHANGED << vars, storageVars, retryVars, cacheVars,
                               facadeVars, saveVars, retentionVars,
                               downloadVars, progressVars, managerVars,
                               multipartVars, clockVars, tickerVars,
                               uploadArtifactVars >>

TickerOnly == UNCHANGED << vars, storageVars, retryVars, cacheVars,
                           facadeVars, saveVars, retentionVars, downloadVars,
                           progressVars, managerVars, multipartVars,
                           clockVars, uploadFileVars, uploadArtifactVars >>

UploadArtifactOnly == UNCHANGED << vars, storageVars, retryVars, cacheVars,
                                   facadeVars, saveVars, retentionVars,
                                   downloadVars, progressVars, managerVars,
                                   multipartVars, clockVars, uploadFileVars,
                                   tickerVars >>

\* a step of the observed component, which the observer follows
EngineClockOnly == UNCHANGED << storageVars, retryVars, cacheVars,
                                facadeVars, saveVars, retentionVars,
                                downloadVars, progressVars, managerVars,
                                multipartVars, uploadFileVars, tickerVars,
                                uploadArtifactVars >>

\* a step of the observed component, which the observer follows
ProgressTickerOnly == UNCHANGED << vars, storageVars, retryVars, cacheVars,
                                   facadeVars, saveVars, retentionVars,
                                   downloadVars, managerVars, multipartVars,
                                   clockVars, uploadFileVars,
                                   uploadArtifactVars >>

Init == (InitZip \/ InitSdk) /\ StorageOff /\ RetryOff /\ CacheOff /\
        FacadeOff /\ SaveOff /\ RetentionOff /\ DownloadOff /\ ProgressOff /\
        ManagerOff /\ MultipartOff /\ ClockOff /\ UploadFileOff /\ TickerOff /\
        UploadArtifactOff

Next ==
  \/ ZipCreateOk /\ EngineOnly
  \/ ZipCreateFail /\ EngineOnly
  \/ StreamData /\ EngineOnly
  \/ StreamEnd /\ EngineOnly
  \/ StreamError /\ EngineOnly
  \/ ZipSendPart /\ EngineOnly
  \/ ZipBatchResolve /\ EngineOnly
  \/ ZipBatchReject /\ EngineOnly
  \/ ZipRemainingResolve /\ EngineOnly
  \/ ZipRemainingReject /\ EngineOnly
  \/ ZipCompleteOk /\ EngineOnly
  \/ ZipCompleteFail /\ EngineOnly
  \/ ZipPartOk /\ EngineOnly
  \/ ZipPartFail /\ EngineOnly
  \/ Tick /\ EngineOnly
  \/ SdkCreateOk /\ EngineOnly
  \/ SdkCreateFail /\ EngineOnly
  \/ SdkBatchResolve /\ EngineOnly
  \/ SdkBatchReject /\ EngineOnly
  \/ SdkRemainingResolve /\ EngineOnly
  \/ SdkRemainingReject /\ EngineOnly
  \/ SdkCompleteOk /\ EngineOnly
  \/ SdkCompleteFail /\ EngineOnly
  \/ SdkPartOk /\ EngineOnly
  \/ SdkPartFail /\ EngineOnly

Spec == Init /\ [][Next]_allVars

InitStorage == InitStorageCall /\ EngineOff /\ RetryOff /\ CacheOff /\
               FacadeOff /\ SaveOff /\ RetentionOff /\ DownloadOff /\
               ProgressOff /\ ManagerOff /\ MultipartOff /\ ClockOff /\
               UploadFileOff /\ TickerOff /\ UploadArtifactOff

NextStorage ==
  \/ StSetupFail /\ StorageOnly
  \/ StStart /\ StorageOnly
  \/ StProgress /\ StorageOnly
  \/ StTick /\ StorageOnly
  \/ StUploadDone /\ StorageOnly
  \/ StUploadFail /\ StorageOnly
  \/ StStallRaised /\ StorageOnly

SpecStorage == InitStorage /\ [][NextStorage]_allVars

InitRetry == InitRetryCall /\ EngineOff /\ StorageOff /\ CacheOff /\
             FacadeOff /\ SaveOff /\ RetentionOff /\ DownloadOff /\
             ProgressOff /\ ManagerOff /\ MultipartOff /\ ClockOff /\
             UploadFileOff /\ TickerOff /\ UploadArtifactOff

NextRetry ==
  \/ RtStart /\ RetryOnly
  \/ RtFnReturns /\ RetryOnly
  \/ RtFnThrows /\ RetryOnly
  \/ RtTimer /\ RetryOnly

SpecRetry == InitRetry /\ [][NextRetry]_allVars

InitCache == InitCacheCall /\ EngineOff /\ StorageOff /\ RetryOff /\
             FacadeOff /\ SaveOff /\ RetentionOff /\ DownloadOff /\
             ProgressOff /\ ManagerOff /\ MultipartOff /\ ClockOff /\
             UploadFileOff /\ TickerOff /\ UploadArtifactOff

NextCache ==
  \/ LcHeadFound /\ CacheOnly
  \/ LcHeadNotFound /\ CacheOnly
  \/ LcHeadError /\ CacheOnly
  \/ LcListOk /\ CacheOnly
  \/ LcListError /\ CacheOnly
  \/ RcDownloadOk /\ CacheOnly
  \/ RcDownloadFail /\ CacheOnly

SpecCache == InitCache /\ [][NextCache]_allVars

InitFacade == InitFacadeCall /\ EngineOff /\ StorageOff /\ RetryOff /\
              CacheOff /\ SaveOff /\ RetentionOff /\ DownloadOff /\
              ProgressOff /\ ManagerOff /\ MultipartOff /\ ClockOff /\
              UploadFileOff /\ TickerOff /\ UploadArtifactOff

NextFacade ==
  \/ FcGetArtifactReply /\ FacadeOnly
  \/ FcDeleteArtifactReply /\ FacadeOnly
  \/ FcListArtifactsReply /\ FacadeOnly

SpecFacade == InitFacade /\ [][NextFacade]_allVars

InitSave == InitSaveCall /\ EngineOff /\ StorageOff /\ RetryOff /\ CacheOff /\
            FacadeOff /\ RetentionOff /\ DownloadOff /\ ProgressOff /\
            ManagerOff /\ MultipartOff /\ ClockOff /\ UploadFileOff /\
            TickerOff /\ UploadArtifactOff

NextSave ==
  \/ SvCheck /\ SaveOnly
  \/ SvResolve /\ SaveOnly
  \/ SvUploadOk /\ SaveOnly
  \/ SvUploadFail /\ SaveOnly

SpecSave == InitSave /\ [][NextSave]_allVars

InitRetention == InitRetentionCall /\ EngineOff /\ StorageOff /\ RetryOff /\
                 CacheOff /\ FacadeOff /\ SaveOff /\ DownloadOff /\
                 ProgressOff /\ ManagerOff /\ MultipartOff /\ ClockOff /\
                 UploadFileOff /\ TickerOff /\ UploadArtifactOff

NextRetention ==
  \/ RdGetRetentionDays /\ RetentionOnly
  \/ RdGetExpiration /\ RetentionOnly

SpecRetention == InitRetention /\ [][NextRetention]_allVars

InitDownload == InitDownloadCall /\ EngineOff /\ StorageOff /\ RetryOff /\
                CacheOff /\ FacadeOff /\ SaveOff /\ RetentionOff /\
                ProgressOff /\ ManagerOff /\ MultipartOff /\ ClockOff /\
                UploadFileOff /\ TickerOff /\ UploadArtifactOff

NextDownload ==
  \/ DlOpenOk /\ DownloadOnly
  \/ DlOpenFail /\ DownloadOnly
  \/ DlData /\ DownloadOnly
  \/ DlEnd /\ DownloadOnly
  \/ DlExtractError /\ DownloadOnly
  \/ DlStreamError /\ DownloadOnly
  \/ DlTick /\ DownloadOnly
  \/ DlRetry /\ DownloadOnly

SpecDownload == InitDownload /\ [][NextDownload]_allVars

InitProgress == InitProgressCall /\ EngineOff /\ StorageOff /\ RetryOff /\
                CacheOff /\ FacadeOff /\ SaveOff /\ RetentionOff /\
                DownloadOff /\ ManagerOff /\ MultipartOff /\ ClockOff /\
                UploadFileOff /\ TickerOff /\ UploadArtifactOff

NextProgress ==
  \/ UpOnProgress /\ ProgressOnly
  \/ UpStartDisplayTimer /\ ProgressOnly
  \/ UpDisplayCallback /\ ProgressOnly
  \/ UpDisplay /\ ProgressOnly
  \/ UpStopDisplayTimer /\ ProgressOnly

SpecProgress == InitProgress /\ [][NextProgress]_allVars

InitManager == InitManagerCall /\ EngineOff /\ StorageOff /\ RetryOff /\
               CacheOff /\ FacadeOff /\ SaveOff /\ RetentionOff /\
               DownloadOff /\ ProgressOff /\ MultipartOff /\ ClockOff /\
               UploadFileOff /\ TickerOff /\ UploadArtifactOff

NextManager ==
  \/ GmCall /\ ManagerOnly
  \/ GmConfigChanges /\ ManagerOnly

SpecManager == InitManager /\ [][NextManager]_allVars

InitMultipart == InitMultipartCall /\ EngineOff /\ StorageOff /\ RetryOff /\
                 CacheOff /\ FacadeOff /\ SaveOff /\ RetentionOff /\
                 DownloadOff /\ ProgressOff /\ ManagerOff /\ ClockOff /\
                 UploadFileOff /\ TickerOff /\ UploadArtifactOff

NextMultipart ==
  \/ MpCreateOk /\ MultipartOnly
  \/ MpCreateFail /\ MultipartOnly
  \/ MpRead /\ MultipartOnly
  \/ MpReadFail /\ MultipartOnly
  \/ MpPartOk /\ MultipartOnly
  \/ MpPartFail /\ MultipartOnly
  \/ MpCompleteOk /\ MultipartOnly
  \/ MpCompleteFail /\ MultipartOnly
  \/ MpAbortOk /\ MultipartOnly
  \/ MpAbortFail /\ MultipartOnly

SpecMultipart == InitMultipart /\ [][NextMultipart]_allVars

InitUploadFile == InitUploadFileCall /\ EngineOff /\ StorageOff /\ RetryOff /\
                  CacheOff /\ FacadeOff /\ SaveOff /\ RetentionOff /\
                  DownloadOff /\ ProgressOff /\ ManagerOff /\ MultipartOff /\
                  ClockOff /\ TickerOff /\ UploadArtifactOff

NextUploadFile ==
  \/ UfSpawn /\ UploadFileOnly
  \/ UfChunkOk /\ UploadFileOnly
  \/ UfChunkFail /\ UploadFileOnly

SpecUploadFile == InitUploadFile /\ [][NextUploadFile]_allVars

InitUploadArtifact == InitUploadArtifactCall /\ EngineOff /\ StorageOff /\
                      RetryOff /\ CacheOff /\ FacadeOff /\ SaveOff /\
                      RetentionOff /\ DownloadOff /\ ProgressOff /\
                      ManagerOff /\ MultipartOff /\ ClockOff /\
                      UploadFileOff /\ TickerOff

NextUploadArtifact ==
  \/ UaCreateOk /\ UploadArtifactOnly
  \/ UaCreateFail /\ UploadArtifactOnly
  \/ UaUploadOpen /\ UploadArtifactOnly
  \/ UaUploadPart /\ UploadArtifactOnly
  \/ UaUploadDone /\ UploadArtifactOnly
  \/ UaUploadFail /\ UploadArtifactOnly
  \/ UaHeadOk /\ UploadArtifactOnly
  \/ UaHeadFail /\ UploadArtifactOnly

SpecUploadArtifact == InitUploadArtifact /\ [][NextUploadArtifact]_allVars

----------------------------------------------------------------------------
(* Properties *)

Committing == "CompleteMultipartUpload" \in sent

\* the bytes carried by the UploadPart requests, request by request
RECURSIVE SentBytes(_)
SentBytes(n) == IF n = 0 THEN 0 ELSE SentBytes(n - 1) + Len(requests[n].Body)

\* the backend answered no request with a failure
BackendSucceeded ==
  /\ \A k \in DOMAIN requests : requests[k].state # "rejected"
  /\ result \notin { "CREATE_MULTIPART_FAILED", "COMPLETE_MULTIPART_FAILED" }

\* C1: in uploadZipToS3 the parts list sent with CompleteMultipartUpload has
\* exactly one entry per UploadPart request issued, and the entry of part
\* number k carries the ETag returned for the request sent with PartNumber k.
C1_PartsMatchRequests ==
  (call = Zip /\ Committing) =>
    /\ Len(completeParts) = Len(requests)
    /\ { << completeParts[j].PartNumber, completeParts[j].ETag >> :
           j \in DOMAIN completeParts }
       = { << requests[k].PartNumber, k >> : k \in DOMAIN requests }

\* C2: in uploadZipToS3 every byte the source stream emitted is sent in
\* exactly one UploadPart body: when the call resolves, the bodies' lengths
\* add up to the number of bytes emitted.
C2_NoByteLost ==
  (call = Zip /\ result = "resolved") =>
    /\ SentBytes(Len(requests)) = emitted
    /\ \A b \in 1..emitted :
         Cardinality({ k \in DOMAIN requests : b \in Range(requests[k].Body) }) = 1

\* C3: when the source stream has ended after at least one byte and no
\* backend request failed or is outstanding, a settled uploadZipToS3 has
\* resolved: it did not fail with a stall or any other error.
C3_ResolvesWhenBackendSucceeds ==
  (/\ call = Zip /\ pc = "done"
   /\ stream = "ended" /\ emitted >= 1
   /\ BackendSucceeded /\ InFlight = {}) => result = "resolved"

\* C4: at every moment at most maxConcurrency UploadPart requests are issued
\* and not yet settled.
C4_BoundedInFlight == Cardinality(InFlight) <= maxConcurrency

\* C4 witness: uploadZipToS3 waits on a full pool, every request of it in flight
C4_Witness ==
  /\ call = Zip /\ pc = "batch"
  /\ Cardinality(InFlight) = maxConcurrency

\* C5: the parts list sent with CompleteMultipartUpload is in strictly
\* ascending PartNumber order.
C5_StrictlyAscending ==
  Committing =>
    \A j \in 1..(Len(completeParts) - 1) :
      completeParts[j].PartNumber < completeParts[j + 1].PartNumber

\* C6: CompleteMultipartUpload is issued only after every issued UploadPart
\* request has settled successfully; once one has failed it is never issued.
C6_CommitAfterAllParts ==
  Committing => \A k \in DOMAIN requests : requests[k].state = "fulfilled"

\* C6 witness: uploadZipToS3 sends the commit after more than one pool of parts
C6_Witness ==
  /\ call = Zip
  /\ Committing
  /\ Len(requests) > maxConcurrency

\* C7: a call that fails after CreateMultipartUpload returned an upload id,
\* without having committed the session, has sent AbortMultipartUpload.
C7_AbortOnFailure ==
  (/\ pc = "done" /\ uploadId # 0
   /\ result \notin { "resolved", "ZERO_BYTES_UPLOADED" })
    => "AbortMultipartUpload" \in sent

\* C8: when the source stream ended having produced zero bytes (and no
\* backend request failed), uploadZipToS3 rejects with ZERO_BYTES_UPLOADED.
C8_ZeroBytesRejected ==
  (/\ call = Zip /\ pc = "done"
   /\ stream = "ended" /\ emitted = 0
   /\ BackendSucceeded) => result = "ZERO_BYTES_UPLOADED"

\* C9: while uploadZipToS3 waits for in-flight part uploads to settle, it
\* does not stay unsettled for longer than the stall timeout plus one check
\* interval after the last progress event.
C9_StallDetectedWhileWaiting ==
  (/\ call = Zip /\ pc \in { "batch", "remaining" }
   /\ InFlight # {}) => idle <= stallTimeout + checkStallMs

\* C10: when uploadZipToS3 has settled no checkStall interval is still
\* scheduled, and the interval of a chunk read is cancelled when that read
\* completes.
C10_NoIntervalLeft ==
  /\ pc = "done" => intervals = {}
  /\ pc = "gotChunk" => readCount \notin intervals

\* the call of uploadZipToS3Storage has settled after the race was started
StorageSettled == stPc = "done" /\ stResult \in { "resolved", "UPLOAD_ERROR", "STALL" }

\* C11: uploadZipToS3Storage sets the abort signal before the stall error is
\* raised (timeoutPromise is never rejected with the signal unset), and on
\* every exit of the race (upload success, upload failure, stall) the abort
\* signal is set and the progress interval is cleared.
C11_AbortSetAndIntervalCleared ==
  /\ timeoutPromise = "rejected" => aborted
  /\ StorageSettled => aborted /\ ~checkProgress
  /\ stPc = "done" => ~checkProgress

\* the stall path ran to its end
C11_Witness ==
  /\ stPc = "done" /\ stResult = "STALL"
  /\ lastProgress > getUploadChunkTimeout

\* the error matches no entry of the allow-list, by message or by code
NoneListed(error, list) ==
  \A k \in DOMAIN list :
    /\ error.message = Undefined \/ ~Includes(error.message, list[k])
    /\ error.code # list[k]

\* the attempts and the base delay retry was asked for
AskedMaxRetries ==
  IF options.maxRetries = NotGiven THEN 3 ELSE options.maxRetries

AskedDelayMs ==
  IF options.delayMs = NotGiven THEN 1000 ELSE options.delayMs

\* C12: with a non-empty allow-list, when fn throws an error whose message
\* contains none of the listed strings and whose code equals none of them,
\* retry rejects after that invocation: fn is not invoked again and no
\* backoff delay is awaited.
C12_NonRetryableRejectsAtOnce ==
  ( /\ lastOutcome = "throw"
    /\ options.retryableErrors # << >>
    /\ NoneListed(thrown, options.retryableErrors) )
  => /\ rtPc = "done"
     /\ rtState = "rejected"
     /\ Len(delays) = calls - 1

\* a listed error first, an unlisted one at the second of four attempts
C12_Witness ==
  /\ rtPc = "done" /\ rtState = "rejected"
  /\ options.maxRetries = 4 /\ calls = 2
  /\ options.retryableErrors # << >>
  /\ NoneListed(thrown, options.retryableErrors)
  /\ thrown.message # Undefined /\ thrown.code # Undefined

\* C13: whenever retry gives up, the value it rejects with is the very error
\* thrown by the last invocation of fn: not wrapped, not an earlier attempt's
\* error, never undefined.
C13_RejectsWithLastError ==
  rtState = "rejected"
  => /\ rtValue = thrown
     /\ rtValue.kind = "error"
     /\ rtValue.id = calls

\* gave up because the attempts were exhausted, after three errors
C13_Witness ==
  /\ rtState = "rejected"
  /\ calls = 3 /\ maxRetries = 3
  /\ ~NoneListed(thrown, options.retryableErrors)

\* C14: retry invokes fn at least once and at most maxRetries times (3 when
\* not given); with an empty allow-list, when every invocation throws, fn is
\* invoked exactly maxRetries times and retry then rejects.
C14_InvocationCount ==
  /\ calls <= AskedMaxRetries
  /\ rtPc = "done" => calls >= 1
  /\ ( /\ rtPc = "done"
       /\ options.retryableErrors = << >>
       /\ lastOutcome = "throw" )
     => calls = AskedMaxRetries /\ rtState = "rejected"

\* no maxRetries given, no allow-list, three failures
C14_Witness ==
  /\ rtPc = "done" /\ rtState = "rejected"
  /\ options.maxRetries = NotGiven
  /\ options.retryableErrors = << >>
  /\ calls = 3

\* C15: the delay awaited between failed attempt k and attempt k+1 is
\* delayMs * 2^(k-1) (1000, 2000, ... by default); no delay is awaited after
\* the final failed attempt or after a successful attempt.
C15_BackoffDelays ==
  /\ \A k \in DOMAIN delays : delays[k] = AskedDelayMs * Pow2(k - 1)
  /\ rtPc = "delay" => Len(delays) = calls
  /\ rtPc = "fn" => Len(delays) = calls
  /\ rtPc = "done" => Len(delays) = calls - 1

\* four attempts with the default delay
C15_Witness ==
  /\ rtPc = "done"
  /\ calls = 4
  /\ delays = << 1000, 2000, 4000 >>

\* C16: if fn fails with retryable errors on its first k-1 invocations and
\* succeeds on invocation k, k at most maxRetries, retry resolves with the
\* value invocation k returned, after exactly k invocations; the value is
\* passed on as a first-try success would pass it.
C16_ResolvesWithReturnedValue ==
  /\ lastOutcome = "return"
     => /\ rtState = "resolved"
        /\ rtValue = returned
        /\ rtValue \in Values
        /\ calls = attempt
  /\ rtState = "resolved" => lastOutcome = "return"
  /\ rtPc = "fn" => calls = attempt - 1 /\ attempt <= AskedMaxRetries
  /\ rtPc = "delay" => calls = attempt /\ attempt < AskedMaxRetries

\* two listed errors, then a value at the third invocation
C16_Witness ==
  /\ rtState = "resolved"
  /\ calls = 3
  /\ options.retryableErrors # << >>
  /\ ~NoneListed(thrown, options.retryableErrors)

\* some stored entry's key starts with the restore key
HasMatch(restoreKey) == \E k \in DOMAIN store : StartsWith(k, restoreKey)

\* lookupCache resolved through a restore key
ViaRestoreKey == lastLookup.state = "hit" /\ lastLookup.via >= 1

\* the stored key of the entry lookupCache returned through a restore key
MatchedKey == S3Key(lastLookup.entry.key, lastLookup.entry.version)

\* C17: whenever an entry exists at the exact lookup key, lookupCache returns
\* that entry (unless the HeadObject request itself fails) and issues no list
\* request for any restore key, whatever the restore keys match.
C17_ExactMatchDominates ==
  /\ ( rcPc \in { "head", "list" } /\ LookupKey(pathIdx) \in DOMAIN store )
     => listed = << >>
  /\ ( lastLookup.state # "none" /\ lastLookup.key \in DOMAIN store )
     => /\ lastLookup.listed = << >>
        /\ lastLookup.state \in { "hit", "error" }
        /\ lastLookup.state = "hit"
           => /\ lastLookup.via = 0
              /\ lastLookup.entry.key = lastLookup.key
              /\ lastLookup.entry.creationTime = store[lastLookup.key]

\* the exact entry was returned although the first restore key matches a
\* newer entry
C17_Witness ==
  /\ lastLookup.state = "hit" /\ lastLookup.via = 0
  /\ restoreKeys # << >>
  /\ \E k \in DOMAIN store :
       /\ StartsWith(k, restoreKeys[1])
       /\ store[k] > store[lastLookup.key]

\* C18: when no entry exists at the exact lookup key, the entry lookupCache
\* returns belongs to the first restore key, in list order, that is a prefix
\* of a stored entry's key; restore keys after that one are not listed and a
\* later restore key never wins while an earlier one has a stored match.
C18_FirstMatchingRestoreKeyWins ==
  ( lastLookup.state = "hit" /\ lastLookup.key \notin DOMAIN store )
  => /\ lastLookup.via >= 1
     /\ StartsWith(MatchedKey, restoreKeys[lastLookup.via])
     /\ \A n \in 1..(lastLookup.via - 1) : ~HasMatch(restoreKeys[n])
     /\ lastLookup.listed = SubSeq(restoreKeys, 1, lastLookup.via)

C20_ReportsMatchedKey ==
  /\ ViaRestoreKey => lastLookup.entry.key \in DOMAIN store
  /\ ( ViaRestoreKey /\ rcPc = "done" /\ rcResult.kind = "key" )
     => rcResult.key \in { MatchedKey, lastLookup.entry.key }
  /\ ( ViaRestoreKey /\ Len(downloads) = Len(cachePaths) )
     => downloads[Len(downloads)] = MatchedKey

\* the S3ArtifactManager call ended with ArtifactNotFoundError
ManagerNotFound ==
  mgrResult.state = "rejected" /\ mgrResult.class = "ArtifactNotFoundError"

\* C21: when the artifact manager reports ArtifactNotFoundError,
\* getArtifact(name) with failIfNotFound false or unset resolves with a soft
\* empty result, and with failIfNotFound true rejects with
\* ArtifactNotFoundError.
C21_SoftNotFound ==
  ( fcOp = "getArtifact" /\ fcPc = "done" /\ ManagerNotFound )
  => IF failIfNotFound
     THEN /\ fcResult.state = "rejected"
          /\ fcResult.class = "ArtifactNotFoundError"
     ELSE /\ fcResult.state = "resolved"
          /\ fcResult.kind = "soft"

\* C22: S3ArtifactManager.getArtifact and deleteArtifact end with
\* ArtifactNotFoundError exactly when the key is missing and the backend did
\* not fail otherwise; any other backend failure yields an error that is not
\* a not-found error.
C22_NotFoundExactlyWhenAbsent ==
  ( fcOp \in { "getArtifact", "deleteArtifact" } /\ mgrResult.state # "none" )
  => ( ManagerNotFound
       <=> ( ~objectExists /\ mgrResult.cause \notin BackendFailures ) )

\* C23: listArtifacts and deleteArtifact reject whenever the backend call
\* failed with an error that is not a not-found error, whether or not
\* failIfNotFound is set.
C23_FailureIsNotSwallowed ==
  ( /\ fcOp \in { "listArtifacts", "deleteArtifact" }
    /\ fcPc = "done"
    /\ mgrResult.state = "rejected"
    /\ mgrResult.cause \in BackendFailures )
  => fcResult.state = "rejected"

\* C24: when saveCache resolves, the upload of every resolved cache path
\* succeeded and none failed.
C24_ResolvesOnlyIfAllUploaded ==
  ( svPc = "done" /\ svResult.state = "resolved" )
  => ( svFailed = {} /\ svUploaded = Range(svCachePaths) )

\* the input is written as an integer: an optional minus sign and then digits
\* only
DenotesInteger(str) ==
  /\ str # Undefined /\ str # << >>
  /\ LET digits == IF Head(str) = "-" THEN Tail(str) ELSE str
     IN digits # << >> /\ \A k \in 1..Len(digits) : IsDigit(digits[k])

\* the integer an input of DenotesInteger denotes
DenotedInteger(str) ==
  LET n == ParseDigits(IF Head(str) = "-" THEN Tail(str) ELSE str, 10, 0, FALSE)
  IN IF Head(str) = "-" THEN 0 - n.v ELSE n.v

\* C25: getRetentionDays returns n for inputs that denote an integer n with
\* 1 <= n <= 90, throws for every other non-empty input, returns undefined for
\* an unset input, and the expiry of an accepted n is n days after today.
C25_RetentionDays ==
  /\ rdPc \in { "returned", "done" } =>
       IF retentionDays = Undefined
       THEN rdResult.kind = "undefined"
       ELSE IF retentionDays = << >>
       THEN TRUE
       ELSE IF /\ DenotesInteger(retentionDays)
               /\ DenotedInteger(retentionDays) >= MinRetention
               /\ DenotedInteger(retentionDays) <= MaxRetention
       THEN rdResult = [ kind |-> "value", v |-> DenotedInteger(retentionDays) ]
       ELSE rdResult.kind = "thrown"
  /\ ( rdPc = "done" /\ rdResult.kind = "value" ) =>
       expirationDate = Date(today + rdResult.v)

\* the payload of the call: what the stream emitted, or the archive file
PayloadSize == IF call = Zip THEN emitted ELSE fileSize

\* ceil(t / p)
CeilDiv(t, p) == (t + p - 1) \div p

\* C26: a call that resolves for a payload of T bytes and part size P has
\* issued exactly ceil(T/P) UploadPart requests; every one but the last
\* carries exactly P bytes and the last carries between 1 and P bytes.
C26_PartSizes ==
  ( pc = "done" /\ result = "resolved" ) =>
    /\ Len(requests) = CeilDiv(PayloadSize, chunkSize)
    /\ \A k \in DOMAIN requests :
         IF k < Len(requests)
         THEN Len(requests[k].Body) = chunkSize
         ELSE Len(requests[k].Body) \in 1..chunkSize

\* the object the backend assembles from the committed parts list: the bodies
\* of the requests whose ETags the list names, in list order
RECURSIVE CommittedObject(_)
CommittedObject(parts) ==
  IF parts = << >> THEN << >>
  ELSE requests[Head(parts).ETag].Body \o CommittedObject(Tail(parts))

\* what hashStream digested: every byte the stream emitted (s3-upload.ts:27)
HashedContent == Bytes(0, emitted)

\* C27: after uploadZipToS3 resolves, the committed parts concatenated in
\* PartNumber order are the bytes the source stream emitted, uploadSize is
\* their number, and the digest returned is the digest of that content.
C27_RoundTrip ==
  ( call = Zip /\ pc = "done" /\ result = "resolved" ) =>
    /\ CommittedObject(completeParts) = Bytes(0, emitted)
    /\ uploadSize = emitted
    /\ HashedContent = CommittedObject(completeParts)

\* C28: a download reports success only if the bytes delivered to the sink
\* equal the size the backend reported, and a transfer that ended short of
\* that size is reported as a failure and is not tried again.
C28_SizeVerified ==
  /\ dlResult = "resolved" => downloadedBytes = objectSize
  /\ truncated => ( dlPc = "done" /\ dlResult = "rejected" )

\* C29: in streamExtractExternal, once the idle timeout has passed without a
\* data event the download stream is destroyed and the attempt fails with an
\* error that streamExtract retries; a flowing stream is never idle for the
\* whole timeout; streamExtract makes at most 5 attempts and rejects only
\* after the fifth.
C29_IdleWatchdog ==
  dlFn = StreamExtract =>
    /\ timerFired => ( downloadStream = "destroyed" /\ dlPc \in { "wait", "done" } )
    /\ ( dlPc = "stream" /\ downloadStream = "flowing" ) =>
         sinceRefresh < downloadTimeout
    /\ attempts <= MaxDownloadAttempts
    /\ dlResult = "rejected" => attempts = MaxDownloadAttempts

\* the value of the last Progress event, 0 before any (an event without
\* `loaded` counts as 0)
LastEventValue ==
  IF upEvents = 0 \/ ~ upLast.defined THEN 0 ELSE upLast.loaded

\* C30: after any sequence of Progress events getTransferredBytes is the value
\* of the last event (0 before any) and isDone holds exactly when that value
\* equals contentLength; a Progress event leaves contentLength,
\* displayedComplete and timeoutHandle unchanged.
C30_ProgressFrame ==
  /\ [] ( /\ getTransferredBytes = LastEventValue
          /\ isDone <=> ( LastEventValue = contentLength ) )
  /\ [][ upEvents' # upEvents =>
           UNCHANGED << contentLength, displayedComplete, timeoutHandle >> ]_allVars

\* C30 witness: after several Progress events, the last of them past
\* contentLength, with a display timer set and the last line not yet printed
C30_Witness ==
  /\ upEvents >= 2 /\ upLast.defined /\ upLast.loaded > contentLength
  /\ sentBytes = upLast.loaded /\ timeoutHandle # 0 /\ ~ displayedComplete

\* C31: every call of getArtifactManager made while the configuration has no
\* bucket throws 'S3 bucket is required', every call made while it cannot be
\* read throws 'S3 configuration is required', also after an earlier call
\* succeeded, and a failed call leaves no manager cached.
C31_ConfigCheckedOnEveryCall ==
  gmLast.outcome.kind # "none" =>
    /\ gmLast.config = "noBucket" =>
         ( gmLast.outcome.kind = "thrown"
           /\ gmLast.outcome.message = BucketRequired )
    /\ gmLast.config \in { "undefined", "throwsRequired", "throwsOther" } =>
         ( gmLast.outcome.kind = "thrown"
           /\ StartsWith(gmLast.outcome.message, ConfigRequired) )
    /\ gmLast.outcome.kind = "thrown" => artifactManager = 0

\* the multipart uploads: a call of uploadZipToS3 or uploadCacheArchiveSDK, or
\* a call of uploadToS3 that takes the multipart branch
InitParts == Init \/ InitMultipart

NextParts ==
  \/ ZipCreateOk /\ EngineOnly
  \/ ZipCreateFail /\ EngineOnly
  \/ StreamData /\ EngineOnly
  \/ StreamEnd /\ EngineOnly
  \/ StreamError /\ EngineOnly
  \/ ZipSendPart /\ EngineOnly
  \/ ZipBatchResolve /\ EngineOnly
  \/ ZipBatchReject /\ EngineOnly
  \/ ZipRemainingResolve /\ EngineOnly
  \/ ZipRemainingReject /\ EngineOnly
  \/ ZipCompleteOk /\ EngineOnly
  \/ ZipCompleteFail /\ EngineOnly
  \/ ZipPartOk /\ EngineOnly
  \/ ZipPartFail /\ EngineOnly
  \/ Tick /\ EngineOnly
  \/ SdkCreateOk /\ EngineOnly
  \/ SdkCreateFail /\ EngineOnly
  \/ SdkBatchResolve /\ EngineOnly
  \/ SdkBatchReject /\ EngineOnly
  \/ SdkRemainingResolve /\ EngineOnly
  \/ SdkRemainingReject /\ EngineOnly
  \/ SdkCompleteOk /\ EngineOnly
  \/ SdkCompleteFail /\ EngineOnly
  \/ SdkPartOk /\ EngineOnly
  \/ SdkPartFail /\ EngineOnly
  \/ MpCreateOk /\ MultipartOnly
  \/ MpCreateFail /\ MultipartOnly
  \/ MpRead /\ MultipartOnly
  \/ MpReadFail /\ MultipartOnly
  \/ MpPartOk /\ MultipartOnly
  \/ MpPartFail /\ MultipartOnly
  \/ MpCompleteOk /\ MultipartOnly
  \/ MpCompleteFail /\ MultipartOnly
  \/ MpAbortOk /\ MultipartOnly
  \/ MpAbortFail /\ MultipartOnly

SpecParts == InitParts /\ [][NextParts]_allVars

\* every byte of body a was emitted before every byte of body b
BytesBefore(a, b) == \A x \in Range(a), y \in Range(b) : x < y

\* C32: within one upload session the k-th UploadPart request issued carries
\* PartNumber k and the k-th chunk read from the source, whatever the order
\* in which earlier part uploads complete (uploadZipToS3 and the multipart
\* branch of uploadToS3).
C32_SequentialPartNumbers ==
  /\ call = Zip =>
       \A k \in DOMAIN requests :
         /\ requests[k].PartNumber = k
         /\ \A j \in 1..(k - 1) : BytesBefore(requests[j].Body, requests[k].Body)
  /\ \A k \in DOMAIN mpRequests :
       /\ mpRequests[k].PartNumber = k
       /\ mpRequests[k].Body = mpChunks[k]

\* C32 witness: uploadZipToS3 has issued three parts and the second completed
\* while the first is still in flight
C32_Witness ==
  /\ call = Zip /\ Len(requests) >= 3
  /\ requests[1].state = "inflight" /\ requests[2].state = "fulfilled"

\* C33: uploadZipToS3 never sends CompleteMultipartUpload with an empty parts
\* list: a session whose source produced no bytes is not committed.
C33_NoEmptyCommit ==
  ( call = Zip /\ Committing ) => completeParts # << >>

\* uploadZipToS3 followed by the observer's clock
InitStall == Init /\ call = Zip

NextStall ==
  \/ ZipCreateOk /\ ClockKeeps /\ EngineClockOnly
  \/ ZipCreateFail /\ ClockKeeps /\ EngineClockOnly
  \/ StreamData /\ ClockReset /\ EngineClockOnly
  \/ StreamEnd /\ ClockKeeps /\ EngineClockOnly
  \/ StreamError /\ ClockKeeps /\ EngineClockOnly
  \/ ZipSendPart /\ ClockKeeps /\ EngineClockOnly
  \/ ZipBatchResolve /\ ClockKeeps /\ EngineClockOnly
  \/ ZipBatchReject /\ ClockKeeps /\ EngineClockOnly
  \/ ZipRemainingResolve /\ ClockKeeps /\ EngineClockOnly
  \/ ZipRemainingReject /\ ClockKeeps /\ EngineClockOnly
  \/ ZipCompleteOk /\ ClockKeeps /\ EngineClockOnly
  \/ ZipCompleteFail /\ ClockKeeps /\ EngineClockOnly
  \/ ZipPartOk /\ ClockReset /\ EngineClockOnly
  \/ ZipPartFail /\ ClockKeeps /\ EngineClockOnly
  \/ Tick /\ ClockAdvance /\ EngineClockOnly

SpecStall == InitStall /\ [][NextStall]_allVars

\* C34: uploadZipToS3 raises the stall error only when more than the stall
\* timeout has passed since the most recent source data event or part-upload
\* completion (or since the start of the call): a transfer whose progress
\* events are never more than 30 s apart is not failed as stalled.
C34_StallOnlyWhenIdle ==
  ( call = Zip /\ result = "STALL" ) => sinceProgress > stallTimeout

\* how many times the command was sent in the session
MpCount(command) ==
  Cardinality({ k \in DOMAIN mpSent : mpSent[k] = command })

\* C35: in the multipart branch of uploadToS3, when an UploadPart or the
\* CompleteMultipartUpload has failed, AbortMultipartUpload has been sent
\* exactly once and the call rejects with the original failure, also when the
\* abort request itself fails.
C35_AbortKeepsCause ==
  ( mpPc = "done" /\ mpError \in { "UploadPart", "CompleteMultipartUpload" } ) =>
    /\ MpCount("AbortMultipartUpload") = 1
    /\ mpResult = [ state |-> "rejected", error |-> mpError ]

\* the bytes of a range
RangeBytes(r) == r[1]..r[2]

\* C36: in uploadFile the ranges passed to uploadChunk are pairwise disjoint,
\* each spans between 1 and maxChunkSize bytes, and when all uploads succeeded
\* they cover exactly the bytes 0..fileSize-1, whatever the order in which
\* the workers' uploads complete.
C36_ChunksPartitionFile ==
  /\ \A j, k \in DOMAIN ufRanges :
       j # k => RangeBytes(ufRanges[j]) \cap RangeBytes(ufRanges[k]) = {}
  /\ \A k \in DOMAIN ufRanges :
       Cardinality(RangeBytes(ufRanges[k])) \in 1..maxChunkSize
  /\ ufResult = "resolved" =>
       UNION { RangeBytes(ufRanges[k]) : k \in DOMAIN ufRanges }
         = 0..(ufFileSize - 1)

\* C36 witness: two workers have uploaded a file of more than two chunks, the
\* last of them shorter than maxChunkSize
C36_Witness ==
  /\ ufResult = "resolved" /\ concurrency = 2 /\ Len(ufRanges) >= 3
  /\ ufFileSize % maxChunkSize # 0

\* C37: the descriptor is closed only after every worker has stopped: with
\* fd closed no chunk upload is in flight and none was started afterwards.
C37_FdClosedAfterWorkers ==
  ( ufResult # "pending" /\ ~ fdOpen ) =>
    /\ \A w \in DOMAIN workers : workers[w] # "uploading"
    /\ readsOnClosedFd = 0

\* C38: one facade getArtifact call sends the backend head request at most
\* DEFAULT_MAX_RETRIES times in total; the retry in the facade and the retry
\* inside S3ArtifactManager.getArtifact do not multiply the attempts.
C38_HeadAttemptsBounded ==
  fcOp = "getArtifact" => sends <= DEFAULT_MAX_RETRIES

\* an UploadProgress whose ticker is started at most once, before it is
\* stopped, observed by its output
InitTicker == InitProgress

NextTicker ==
  \/ /\ UpOnProgress
     /\ UNCHANGED tickerVars /\ ProgressTickerOnly
  \/ /\ upHandles = 0 /\ ~ upStopped
     /\ UpStartDisplayTimer
     /\ UNCHANGED tickerVars /\ ProgressTickerOnly
  \/ /\ UpDisplay
     /\ TickerPrints /\ UNCHANGED upStopped /\ ProgressTickerOnly
  \/ /\ UpDisplayCallback
     /\ TickerPrints /\ UNCHANGED upStopped /\ ProgressTickerOnly
  \/ /\ UpStopDisplayTimer
     /\ TickerPrints /\ upStopped' = TRUE /\ ProgressTickerOnly

SpecTicker == InitTicker /\ [][NextTicker]_allVars

\* a step in which a scheduled timeout fires
TimerTick ==
  /\ upScheduled' # upScheduled
  /\ timeoutHandle' # 0
  /\ \E h \in upScheduled : h \notin upScheduled'

\* C39: for an UploadProgress, over any sequence of setSentBytes, display,
\* timer ticks and stopDisplayTimer calls: once a line has been printed while
\* isDone held no further line is printed; a tick at which isDone holds
\* schedules no further timeout; and after stopDisplayTimer has returned
\* timeoutHandle is undefined and no timeout of the ticker is pending.
C39_TickerStops ==
  /\ [][ printedDone => upLines' = upLines ]_allVars
  /\ [][ ( TimerTick /\ isDone ) =>
           ( upHandles' = upHandles /\ upScheduled' = {} ) ]_allVars
  /\ [] ( upStopped => ( timeoutHandle = 0 /\ upScheduled = {} ) )

\* C39 witness: the ticker has printed a line before the end and the last
\* line, and was then stopped
C39_Witness ==
  /\ upStopped /\ printedDone /\ upLines >= 2 /\ upHandles = 2
  /\ upEvents >= 1 /\ contentLength > 0

\* the session with the given id
SessionOf(id) == sessions[id]

\* C40: each attempt of S3ArtifactManager.uploadArtifact opens a new multipart
\* session by a CreateMultipartUpload of its own, and no attempt sends parts
\* to, or returns the upload id of, a session opened by an earlier attempt.
C40_FreshSessionPerAttempt ==
  /\ \A a \in 1..uaAttempt :
       LET created == { k \in DOMAIN sessions :
                          /\ sessions[k].attempt = a
                          /\ sessions[k].by = "uploadArtifact" }
       IN /\ Cardinality(created) <= 1
          /\ ( a = uaAttempt /\ uaPc \in { "upload", "head" } ) =>
               Cardinality(created) = 1
          /\ ( \E part \in uaParts : part.attempt = a ) =>
               Cardinality(created) = 1
  /\ uaPc \in { "upload", "head" } =>
       /\ UploadId \in DOMAIN sessions
       /\ SessionOf(UploadId).attempt = uaAttempt
       /\ SessionOf(UploadId).by = "uploadArtifact"
       /\ \A k \in DOMAIN sessions : k # UploadId => sessions[k].id # UploadId
  /\ \A part \in uaParts : SessionOf(part.session).attempt = part.attempt
  /\ uaResult.state = "resolved" =>
       /\ uaResult.uploadId \in DOMAIN sessions
       /\ SessionOf(uaResult.uploadId).attempt = uaResult.attempt

\* C40 witness: the third attempt succeeded after two failed attempts that
\* had each opened sessions and sent parts
C40_Witness ==
  /\ uaResult.state = "resolved" /\ uaResult.attempt = 3
  /\ \A a \in 1..3 : \E part \in uaParts : part.attempt = a
  /\ Len(sessions) = 6

====
